---- MODULE Spec2Model ----
(***************************************************************************)
(* A model of the minimal Lean 4 runtime for WebAssembly                    *)
(* (src/wasm/lean_runtime_wasm.c, src/wasm/init_stubs_wasm.c).              *)
(*                                                                          *)
(* The heap is a finite array of slots.  A slot holds either a free marker  *)
(* or one lean_object.  A value (a lean_object pointer) is an integer: a    *)
(* positive value is the address of a slot, a value <= 0 a boxed scalar.    *)
(* The single thread of control owns a bag of references (roots).           *)
(***************************************************************************)
EXTENDS Integers, Sequences, FiniteSets, TLC

(* ------------------------------ bounds --------------------------------- *)
MaxObjs == 5
MaxRc == 3
MaxLen == 6
MaxFields == 1
MaxArgs == 2
MaxSteps == 3
MaxRcSteps == 3
MaxGrowSteps == 4
MaxExtSteps == 3
MaxAppSteps == 4
MaxStrSteps == 3
MaxNavSteps == 4
MaxValSteps == 2
MaxTxtSteps == 3
MaxJsSteps == 4
MaxIoSteps == 3
MaxOomSteps == 4
MaxNatSteps == 1
MaxPanicSteps == 3
MaxRefSteps == 4
MaxSliceSteps == 4
MaxZeroSteps == 3
MaxMapSteps == 5
MaxDecSteps == 2
MaxLoopSteps == 3
ReleaseStackBound == 2

Addr == 1..MaxObjs

(* ------------------------- values and objects -------------------------- *)
lean_box(n) == 0 - n
lean_is_scalar(v) == v <= 0

ScalarVals == {lean_box(0), lean_box(1)}
ByteVals == {65, 66}
\* "A", 0xE9 (two bytes in UTF-8)
CodePoints == {65, 233}
\* the byte buffers and the C string literals the program starts from
ByteLits == {<<>>, <<65, 66, 65, 66, 65>>}
StrLits == {<<66>>, [i \in 1..14 |-> 65]}

Max(a, b) == IF a >= b THEN a ELSE b

FreeSlot ==
  [m_tag |-> "free", m_rc |-> 0, m_objs |-> <<>>, m_data |-> <<>>,
   m_capacity |-> 0, m_length |-> 0, m_fun |-> "none", m_arity |-> 0,
   m_cidx |-> 0]

IsLive(h, o) == h[o].m_tag # "free"

\* the owned child references of an object, in release order
\* variant: the elements of an array are not counted as owned children
Children_NoArray(obj) ==
  IF obj.m_tag \in {"ctor", "closure", "ref"} THEN obj.m_objs ELSE <<>>

Children(obj) ==
  IF obj.m_tag \in {"ctor", "closure", "ref"} THEN obj.m_objs
  ELSE IF obj.m_tag = "array" THEN obj.m_data
  ELSE <<>>

\* number of positions of sequence s that hold value v
RECURSIVE Occ(_, _)
Occ(s, v) ==
  IF s = <<>> THEN 0
  ELSE (IF s[1] = v THEN 1 ELSE 0) + Occ(Tail(s), v)

(* --------------------------- machine state ----------------------------- *)
\* st is the state threaded through one call: the heap, the value returned,
\* and what the call did (allocations, frees, native functions called,
\* deepest nesting of lean_dec_ref_cold activations, a fault when freed
\* memory is touched, oom when malloc found no free slot, the diagnostic of
\* lean_internal_panic when the call aborted, the highest index of the
\* argument buffer all_args written to).  ub is the outcome the build gives
\* a write outside all_args: the program runs on to its abort ("abort") or
\* the overwritten stack memory makes it go wrong ("corrupt").  out is the
\* result of a call that returns a C scalar and no object: <<b>> for a
\* uint8_t b, the four 16-bit limbs, lowest first, for a uint64_t.  nomem
\* tells that a malloc of the call returned NULL.
MkSt(h) ==
  [heap |-> h, ret |-> 0, fault |-> FALSE, oom |-> FALSE, depth |-> 0,
   freed |-> <<>>, allocs |-> <<>>, calls |-> <<>>, panic |-> "",
   top |-> 0 - 1, ub |-> "abort", out |-> <<>>, nomem |-> FALSE]

\* fprintf(stderr, "LEAN PANIC: ...") and abort(): nothing runs afterwards
lean_internal_panic(st, msg) == [st EXCEPT !.panic = msg, !.ret = 0]

FreeAddrs(h) == {a \in Addr : ~IsLive(h, a)}
FirstFree(h) == CHOOSE a \in FreeAddrs(h) : \A b \in FreeAddrs(h) : a <= b

\* malloc + header: the new object has m_rc = 1; a failed malloc is fatal
\* (oom: lean_internal_panic_out_of_memory was called).  lean_alloc_small
\* has the same body.
lean_alloc_object(st, obj) ==
  IF FreeAddrs(st.heap) = {}
    THEN [st EXCEPT !.oom = TRUE, !.nomem = TRUE, !.ret = 0]
  ELSE LET a == FirstFree(st.heap) IN
       [st EXCEPT !.heap[a] = [obj EXCEPT !.m_rc = 1],
                  !.ret = a,
                  !.allocs = Append(@, a)]

lean_free_object(st, o) ==
  IF ~IsLive(st.heap, o)
    THEN [st EXCEPT !.fault = TRUE, !.freed = Append(@, o)]
    ELSE [st EXCEPT !.heap[o] = FreeSlot, !.freed = Append(@, o)]

lean_is_exclusive(h, o) == h[o].m_rc = 1

\* variant: the count is left as it is
lean_inc_Skip(st, v) ==
  IF lean_is_scalar(v) THEN st
  ELSE IF ~IsLive(st.heap, v) THEN [st EXCEPT !.fault = TRUE]
  ELSE st

lean_inc(st, v) ==
  IF lean_is_scalar(v) THEN st
  ELSE IF ~IsLive(st.heap, v) THEN [st EXCEPT !.fault = TRUE]
  ELSE IF st.heap[v].m_rc > 0 THEN [st EXCEPT !.heap[v].m_rc = @ + 1]
  ELSE st

RECURSIVE lean_dec_ref_cold(_, _, _)
RECURSIVE lean_dec(_, _, _)
RECURSIVE DecChildren(_, _, _, _)

\* d is the number of lean_dec_ref_cold activations on the native stack
lean_dec(st, v, d) ==
  IF lean_is_scalar(v) THEN st
  ELSE IF ~IsLive(st.heap, v) THEN [st EXCEPT !.fault = TRUE]
  ELSE IF st.heap[v].m_rc > 1 THEN [st EXCEPT !.heap[v].m_rc = @ - 1]
  ELSE IF st.heap[v].m_rc # 0 THEN lean_dec_ref_cold(st, v, d + 1)
  ELSE st

\* the for loops of lean_dec_ref_cold: lean_dec on child i, i+1, ...
DecChildren(st, o, i, d) ==
  LET cs == Children(st.heap[o]) IN
  IF i > Len(cs) THEN st
  ELSE DecChildren(lean_dec(st, cs[i], d), o, i + 1, d)

\* variant: the object is freed without releasing its children
lean_dec_ref_cold_Leak(st, o, d) ==
  IF st.heap[o].m_rc = 1
    THEN lean_free_object([st EXCEPT !.depth = Max(@, d)], o)
  ELSE st

lean_dec_ref_cold(st, o, d) ==
  IF d > MaxObjs + 1 THEN [st EXCEPT !.fault = TRUE]
  ELSE IF st.heap[o].m_rc = 1 THEN
    LET s1 == [st EXCEPT !.depth = Max(@, d)]
        s2 == DecChildren(s1, o, 1, d)
    IN lean_free_object(s2, o)
  ELSE st

\* variant: the object keeps its count
lean_mark_persistent_Skip(st, v) == st

lean_mark_persistent(st, v) ==
  IF lean_is_scalar(v) THEN st
  ELSE [st EXCEPT !.heap[v].m_rc = 0]

(* --------------------------- constructors ------------------------------ *)
\* lean_alloc_ctor followed by lean_ctor_set of every field
lean_alloc_ctor(st, fields) ==
  lean_alloc_object(st, [FreeSlot EXCEPT !.m_tag = "ctor", !.m_objs = fields])

lean_alloc_array(st, data, capacity) ==
  lean_alloc_object(st, [FreeSlot EXCEPT !.m_tag = "array", !.m_data = data,
                                         !.m_capacity = capacity])

lean_alloc_sarray(st, data, capacity) ==
  lean_alloc_object(st, [FreeSlot EXCEPT !.m_tag = "sarray", !.m_data = data,
                                         !.m_capacity = capacity])

lean_alloc_closure(st, fun, arity, fixed) ==
  lean_alloc_object(st, [FreeSlot EXCEPT !.m_tag = "closure", !.m_fun = fun,
                                         !.m_arity = arity, !.m_objs = fixed])

lean_io_result_mk_ok(st, a) == lean_alloc_ctor(st, <<a>>)

\* lean_inc on every element of vs, in order
RECURSIVE IncAll(_, _)
IncAll(st, vs) ==
  IF vs = <<>> THEN st ELSE IncAll(lean_inc(st, vs[1]), Tail(vs))

(* ------------------------------ globals -------------------------------- *)
l_Array_empty == 1
l_ByteArray_empty == 2

init_wasm_globals ==
  LET s0 == MkSt([a \in Addr |-> FreeSlot])
      s1 == lean_alloc_array(s0, <<>>, 0)
      s2 == lean_mark_persistent(s1, s1.ret)
      s3 == lean_alloc_sarray(s2, <<>>, 0)
      s4 == lean_mark_persistent(s3, s3.ret)
  IN s4

(* ------------------------------- arrays -------------------------------- *)
Rep(n, v) == [i \in 1..n |-> v]

lean_mk_array(st, n, v) ==
  LET s1 == lean_alloc_array(st, Rep(n, v), n) IN
  IF s1.oom THEN s1
  ELSE LET s2 == IncAll(s1, Rep(n, v))
           s3 == lean_dec(s2, v, 0)
       IN [s3 EXCEPT !.ret = s1.ret]

\* variant: the copy has room for one more element only
lean_copy_expand_array_Tight(st, a, expand) ==
  LET src == st.heap[a]
      sz == Len(src.m_data)
      cap == IF expand THEN sz + 1 ELSE sz
      s1 == lean_alloc_array(st, src.m_data, cap)
  IN IF s1.oom THEN s1
     ELSE LET s2 == IncAll(s1, src.m_data)
              s3 == lean_dec(s2, a, 0)
          IN [s3 EXCEPT !.ret = s1.ret]

lean_copy_expand_array(st, a, expand) ==
  LET src == st.heap[a]
      sz == Len(src.m_data)
      cap == IF expand THEN (IF sz < 4 THEN 4 ELSE sz * 2) ELSE sz
      s1 == lean_alloc_array(st, src.m_data, cap)
  IN IF s1.oom THEN s1
     ELSE LET s2 == IncAll(s1, src.m_data)
              s3 == lean_dec(s2, a, 0)
          IN [s3 EXCEPT !.ret = s1.ret]

\* variant: an in-place push stores the element in front
lean_array_push_Front(st, a, v) ==
  LET o == st.heap[a] IN
  IF lean_is_exclusive(st.heap, a) /\ Len(o.m_data) < o.m_capacity
    THEN [st EXCEPT !.heap[a].m_data = <<v>> \o @, !.ret = a]
  ELSE LET s1 == lean_copy_expand_array(st, a, TRUE) IN
       IF s1.oom THEN s1
       ELSE [s1 EXCEPT !.heap[s1.ret].m_data = Append(@, v)]

lean_array_push(st, a, v) ==
  LET o == st.heap[a] IN
  IF lean_is_exclusive(st.heap, a) /\ Len(o.m_data) < o.m_capacity
    THEN [st EXCEPT !.heap[a].m_data = Append(@, v), !.ret = a]
  ELSE LET s1 == lean_copy_expand_array(st, a, TRUE) IN
       IF s1.oom THEN s1
       ELSE LET ro == s1.heap[s1.ret]
                s2 == IF Len(ro.m_data) >= ro.m_capacity
                        THEN lean_copy_expand_array(s1, s1.ret, TRUE)
                        ELSE s1
            IN IF s2.oom THEN s2
               ELSE [s2 EXCEPT !.heap[s2.ret].m_data = Append(@, v)]

\* variant: the copied elements are not retained
l_Array_extract___redArg_NoInc(st, a, start, stop) ==
  LET o == st.heap[a]
      sz == Len(o.m_data)
      s == IF start > sz THEN sz ELSE start
      e == IF stop > sz THEN sz ELSE stop
  IN IF s >= e THEN lean_alloc_array(st, <<>>, 0)
     ELSE lean_alloc_array(st, SubSeq(o.m_data, s + 1, e), e - s)

l_Array_extract___redArg(st, a, start, stop) ==
  LET o == st.heap[a]
      sz == Len(o.m_data)
      s == IF start > sz THEN sz ELSE start
      e == IF stop > sz THEN sz ELSE stop
  IN IF s >= e THEN lean_alloc_array(st, <<>>, 0)
     ELSE LET elems == SubSeq(o.m_data, s + 1, e)
              s1 == lean_alloc_array(st, elems, e - s)
          IN IF s1.oom THEN s1
             ELSE [IncAll(s1, elems) EXCEPT !.ret = s1.ret]

(* ----------------------------- byte arrays ----------------------------- *)
mk_byte_array(st, data) == lean_alloc_sarray(st, data, Len(data))

\* variant: a shared byte array with room is written in place
lean_byte_array_push_Shared(st, a, b) ==
  LET o == st.heap[a]
      sz == Len(o.m_data)
  IN IF sz < o.m_capacity
       THEN [st EXCEPT !.heap[a].m_data = Append(@, b), !.ret = a]
     ELSE LET cap == IF sz < 4 THEN 8 ELSE sz * 2
              s1 == lean_alloc_sarray(st, Append(o.m_data, b), cap)
          IN IF s1.oom THEN s1
             ELSE [lean_dec(s1, a, 0) EXCEPT !.ret = s1.ret]

lean_byte_array_push(st, a, b) ==
  LET o == st.heap[a]
      sz == Len(o.m_data)
  IN IF lean_is_exclusive(st.heap, a) /\ sz < o.m_capacity
       THEN [st EXCEPT !.heap[a].m_data = Append(@, b), !.ret = a]
     ELSE LET cap == IF sz < 4 THEN 8 ELSE sz * 2
              s1 == lean_alloc_sarray(st, Append(o.m_data, b), cap)
          IN IF s1.oom THEN s1
             ELSE [lean_dec(s1, a, 0) EXCEPT !.ret = s1.ret]

\* variant: the bytes of dst after the copied range are dropped
lean_byte_array_copy_slice_Cut(st, src, srcOff, dst, dstOff, len, exact) ==
  LET s == st.heap[src]
      d == st.heap[dst]
      src_sz == Len(s.m_data)
      dst_sz == Len(d.m_data)
      ss == IF srcOff > src_sz THEN src_sz ELSE srcOff
      n == IF ss + len > src_sz THEN src_sz - ss ELSE len
      ds == IF dstOff > dst_sz THEN dst_sz ELSE dstOff
      new_sz == ds + n
      bytes == SubSeq(d.m_data, 1, ds) \o SubSeq(s.m_data, ss + 1, ss + n)
  IN IF ~lean_is_exclusive(st.heap, dst) \/ new_sz > d.m_capacity
       THEN LET cap == IF exact THEN new_sz
                       ELSE (IF new_sz < 8 THEN 8 ELSE new_sz * 2)
                s1 == lean_alloc_sarray(st, bytes, cap)
            IN IF s1.oom THEN s1
               ELSE [lean_dec(s1, dst, 0) EXCEPT !.ret = s1.ret]
     ELSE [st EXCEPT !.heap[dst].m_data = bytes, !.ret = dst]

lean_byte_array_copy_slice(st, src, srcOff, dst, dstOff, len, exact) ==
  LET s == st.heap[src]
      d == st.heap[dst]
      src_sz == Len(s.m_data)
      dst_sz == Len(d.m_data)
      ss == IF srcOff > src_sz THEN src_sz ELSE srcOff
      n == IF ss + len > src_sz THEN src_sz - ss ELSE len
      ds == IF dstOff > dst_sz THEN dst_sz ELSE dstOff
      new_sz == IF ds + n < dst_sz THEN dst_sz ELSE ds + n
      bytes == SubSeq(d.m_data, 1, ds) \o SubSeq(s.m_data, ss + 1, ss + n)
                 \o SubSeq(d.m_data, ds + n + 1, new_sz)
  IN IF ~lean_is_exclusive(st.heap, dst) \/ new_sz > d.m_capacity
       THEN LET cap == IF exact THEN new_sz
                       ELSE (IF new_sz < 8 THEN 8 ELSE new_sz * 2)
                s1 == lean_alloc_sarray(st, bytes, cap)
            IN IF s1.oom THEN s1
               ELSE [lean_dec(s1, dst, 0) EXCEPT !.ret = s1.ret]
     ELSE [st EXCEPT !.heap[dst].m_data = bytes, !.ret = dst]

\* variant: the slice starts one byte early
l_ByteArray_extract_Early(st, a, start, stop) ==
  LET o == st.heap[a]
      sz == Len(o.m_data)
      s == IF start > sz THEN sz ELSE start
      e == IF stop > sz THEN sz ELSE stop
  IN IF s >= e THEN lean_alloc_sarray(st, <<>>, 0)
     ELSE lean_alloc_sarray(st, SubSeq(o.m_data, s, e), e - s)

l_ByteArray_extract(st, a, start, stop) ==
  LET o == st.heap[a]
      sz == Len(o.m_data)
      s == IF start > sz THEN sz ELSE start
      e == IF stop > sz THEN sz ELSE stop
  IN IF s >= e THEN lean_alloc_sarray(st, <<>>, 0)
     ELSE lean_alloc_sarray(st, SubSeq(o.m_data, s + 1, e), e - s)

(* ------------------------------- strings ------------------------------- *)
\* number of leading-byte steps taken over the first n bytes of str
RECURSIVE lean_utf8_n_strlen_from(_, _, _)
lean_utf8_n_strlen_from(str, pos, n) ==
  IF pos > n THEN 0
  ELSE LET c == str[pos]
           step == IF c < 128 THEN 1 ELSE IF c < 224 THEN 2
                   ELSE IF c < 240 THEN 3 ELSE 4
       IN 1 + lean_utf8_n_strlen_from(str, pos + step, n)

lean_utf8_n_strlen(str, n) == lean_utf8_n_strlen_from(str, 1, n)

\* a string object holds sz bytes followed by the terminator
lean_mk_string_unchecked(st, s, sz, len) ==
  lean_alloc_object(st, [FreeSlot EXCEPT !.m_tag = "string",
                                         !.m_data = Append(SubSeq(s, 1, sz), 0),
                                         !.m_capacity = sz + 1,
                                         !.m_length = len])

lean_mk_string_from_bytes(st, s, sz) ==
  lean_mk_string_unchecked(st, s, sz, lean_utf8_n_strlen(s, sz))

\* s is the C string without its terminator: strlen(s) = Len(s)
lean_mk_string(st, s) ==
  lean_mk_string_unchecked(st, s, Len(s), lean_utf8_n_strlen(s, Len(s)))

\* variant: the three-byte form is used up to 0x1FFFF
Utf8Encode_Wide(c) ==
  IF c < 128 THEN <<c>>
  ELSE IF c < 2048 THEN <<192 + (c \div 64), 128 + (c % 64)>>
  ELSE IF c < 131072 THEN
    <<224 + (c \div 4096), 128 + ((c \div 64) % 64), 128 + (c % 64)>>
  ELSE <<(240 + (c \div 262144)) % 256, 128 + ((c \div 4096) % 64),
         128 + ((c \div 64) % 64), 128 + (c % 64)>>

\* the bytes lean_string_push writes into buf
Utf8Encode(c) ==
  IF c < 128 THEN <<c>>
  ELSE IF c < 2048 THEN <<192 + (c \div 64), 128 + (c % 64)>>
  ELSE IF c < 65536 THEN
    <<224 + (c \div 4096), 128 + ((c \div 64) % 64), 128 + (c % 64)>>
  ELSE <<(240 + (c \div 262144)) % 256, 128 + ((c \div 4096) % 64),
         128 + ((c \div 64) % 64), 128 + (c % 64)>>

\* variant: the new string gets the capacity of the old one
lean_string_push_OldCap(st, s, c) ==
  LET so == st.heap[s]
      buf == Utf8Encode(c)
      old_bsz == Len(so.m_data)
      new_bsz == old_bsz + Len(buf)
      bytes == SubSeq(so.m_data, 1, old_bsz - 1) \o buf \o <<0>>
  IN IF lean_is_exclusive(st.heap, s) /\ new_bsz <= so.m_capacity
       THEN [st EXCEPT !.heap[s].m_data = bytes,
                       !.heap[s].m_length = @ + 1,
                       !.ret = s]
     ELSE LET s1 == lean_alloc_object(st,
                      [FreeSlot EXCEPT !.m_tag = "string", !.m_data = bytes,
                                       !.m_capacity = so.m_capacity,
                                       !.m_length = so.m_length + 1])
          IN IF s1.oom THEN s1
             ELSE [lean_dec(s1, s, 0) EXCEPT !.ret = s1.ret]

lean_string_push(st, s, c) ==
  LET so == st.heap[s]
      buf == Utf8Encode(c)
      char_sz == Len(buf)
      old_bsz == Len(so.m_data)
      new_bsz == old_bsz + char_sz
      bytes == SubSeq(so.m_data, 1, old_bsz - 1) \o buf \o <<0>>
  IN IF lean_is_exclusive(st.heap, s) /\ new_bsz <= so.m_capacity
       THEN [st EXCEPT !.heap[s].m_data = bytes,
                       !.heap[s].m_length = @ + 1,
                       !.ret = s]
     ELSE LET new_cap == IF new_bsz < 16 THEN 16 ELSE new_bsz * 2
              s1 == lean_alloc_object(st,
                      [FreeSlot EXCEPT !.m_tag = "string", !.m_data = bytes,
                                       !.m_capacity = new_cap,
                                       !.m_length = so.m_length + 1])
          IN IF s1.oom THEN s1
             ELSE [lean_dec(s1, s, 0) EXCEPT !.ret = s1.ret]

lean_string_append(st, s1, s2) ==
  LET o1 == st.heap[s1]
      o2 == st.heap[s2]
      sz1 == Len(o1.m_data) - 1
      sz2 == Len(o2.m_data) - 1
      new_bsz == sz1 + sz2 + 1
      bytes == SubSeq(o1.m_data, 1, sz1) \o o2.m_data
  IN IF lean_is_exclusive(st.heap, s1) /\ new_bsz <= o1.m_capacity
       THEN [st EXCEPT !.heap[s1].m_data = bytes,
                       !.heap[s1].m_length = @ + o2.m_length,
                       !.ret = s1]
     ELSE LET cap == IF new_bsz < 16 THEN 16 ELSE new_bsz * 2
              t1 == lean_alloc_object(st,
                      [FreeSlot EXCEPT !.m_tag = "string", !.m_data = bytes,
                                       !.m_capacity = cap,
                                       !.m_length = o1.m_length + o2.m_length])
          IN IF t1.oom THEN t1
             ELSE [lean_dec(t1, s1, 0) EXCEPT !.ret = t1.ret]

lean_string_utf8_extract(st, s, b, e) ==
  LET so == st.heap[s]
      sz == Len(so.m_data) - 1
      bv == IF b > sz THEN sz ELSE b
      ev == IF e > sz THEN sz ELSE e
  IN IF bv >= ev THEN lean_mk_string_unchecked(st, <<>>, 0, 0)
     ELSE lean_mk_string_from_bytes(st, SubSeq(so.m_data, bv + 1, ev), ev - bv)

lean_string_from_utf8_unchecked(st, ba) ==
  LET o == st.heap[ba]
      s1 == lean_mk_string_from_bytes(st, o.m_data, Len(o.m_data))
  IN IF s1.oom THEN s1
     ELSE [lean_dec(s1, ba, 0) EXCEPT !.ret = s1.ret]

\* m_data[i] (counted from 0); g is what a read past the bytes written so far
\* finds there
ByteAt(obj, i, g) == IF i < Len(obj.m_data) THEN obj.m_data[i + 1] ELSE g

\* the decoding steps of lean_string_utf8_get; (x & 0x3F) is x % 64
Utf8DecodeAt(so, pos, g) ==
  LET c == ByteAt(so, pos, g) IN
  IF c < 128 THEN c
  ELSE IF c < 224 THEN (c % 32) * 64 + (ByteAt(so, pos + 1, g) % 64)
  ELSE IF c < 240 THEN
    (c % 16) * 4096 + (ByteAt(so, pos + 1, g) % 64) * 64
      + (ByteAt(so, pos + 2, g) % 64)
  ELSE (c % 8) * 262144 + (ByteAt(so, pos + 1, g) % 64) * 4096
         + (ByteAt(so, pos + 2, g) % 64) * 64 + (ByteAt(so, pos + 3, g) % 64)

\* variant: the offset is not compared with the position of the terminator
lean_string_utf8_get_NoEnd(h, s, pos, g) == Utf8DecodeAt(h[s], pos, g)

\* the code point decoded at byte offset pos
lean_string_utf8_get(h, s, pos, g) ==
  IF pos >= Len(h[s].m_data) - 1 THEN 0 ELSE Utf8DecodeAt(h[s], pos, g)

lean_unbox(v) == 0 - v

l_Char_utf8Size(c) ==
  IF c < 128 THEN lean_box(1)
  ELSE IF c < 2048 THEN lean_box(2)
  ELSE IF c < 65536 THEN lean_box(3)
  ELSE lean_box(4)

\* the scan of lean_string_validate_utf8 from offset p to end (the offset
\* of the terminator) over the bytes bs
RECURSIVE ValidateFrom(_, _, _, _)
ValidateFrom(bs, p, end, min2) ==
  IF p >= end THEN 1
  ELSE LET b == bs[p + 1]
           cont(k) == bs[p + 1 + k] \div 64 = 2
       IN IF b < 128 THEN ValidateFrom(bs, p + 1, end, min2)
          ELSE IF b < min2 THEN 0
          ELSE IF b < 224 THEN
            (IF end - p < 2 \/ ~cont(1) THEN 0
             ELSE ValidateFrom(bs, p + 2, end, min2))
          ELSE IF b < 240 THEN
            (IF end - p < 3 \/ ~cont(1) \/ ~cont(2) THEN 0
             ELSE ValidateFrom(bs, p + 3, end, min2))
          ELSE IF b < 245 THEN
            (IF end - p < 4 \/ ~cont(1) \/ ~cont(2) \/ ~cont(3) THEN 0
             ELSE ValidateFrom(bs, p + 4, end, min2))
          ELSE 0

\* variant: every byte 11xxxxxx below 0xE0 is taken as a two-byte lead
lean_string_validate_utf8_C0(h, s) ==
  ValidateFrom(h[s].m_data, 0, Len(h[s].m_data) - 1, 192)

lean_string_validate_utf8(h, s) ==
  ValidateFrom(h[s].m_data, 0, Len(h[s].m_data) - 1, 194)

\* memcmp compares the first m_size bytes
l_ByteArray_instBEq_beq(h, a, b) ==
  IF Len(h[a].m_data) # Len(h[b].m_data) THEN 0
  ELSE IF \A i \in 1..Len(h[a].m_data) : h[a].m_data[i] = h[b].m_data[i]
    THEN 1
  ELSE 0

\* variant: only the sizes are compared
lean_string_eq_cold_Size(h, s1, s2) ==
  IF Len(h[s1].m_data) # Len(h[s2].m_data) THEN 0 ELSE 1

\* m_size counts the terminator, which memcmp compares too
lean_string_eq_cold(h, s1, s2) ==
  IF Len(h[s1].m_data) # Len(h[s2].m_data) THEN 0
  ELSE IF \A i \in 1..Len(h[s1].m_data) : h[s1].m_data[i] = h[s2].m_data[i]
    THEN 1
  ELSE 0

\* h * 31 + b in uint64_t arithmetic, h in four 16-bit limbs, lowest first:
\* the carry out of the highest limb is lost
U64MulAdd(h, b) ==
  LET t1 == h[1] * 31 + b
      t2 == h[2] * 31 + t1 \div 65536
      t3 == h[3] * 31 + t2 \div 65536
      t4 == h[4] * 31 + t3 \div 65536
  IN <<t1 % 65536, t2 % 65536, t3 % 65536, t4 % 65536>>

\* for (i = 0; i < n; i++) h = h * 31 + data[i]
RECURSIVE HashLoop(_, _, _, _)
HashLoop(h, data, i, n) ==
  IF i < n THEN HashLoop(U64MulAdd(h, data[i + 1]), data, i + 1, n) ELSE h

lean_byte_array_hash(h, a) ==
  HashLoop(<<7, 0, 0, 0>>, h[a].m_data, 0, Len(h[a].m_data))

\* variant: the loop runs over all m_size bytes
lean_string_hash_Term(h, s) ==
  HashLoop(<<7, 0, 0, 0>>, h[s].m_data, 0, Len(h[s].m_data))

\* the loop stops before the terminator, at m_size - 1
lean_string_hash(h, s) ==
  HashLoop(<<7, 0, 0, 0>>, h[s].m_data, 0, Len(h[s].m_data) - 1)

\* the byte offset after the sequence that starts at offset i, at most the
\* offset of the terminator
lean_string_utf8_next(h, s, i) ==
  LET so == h[s]
      pos == lean_unbox(i)
      sz == Len(so.m_data) - 1
      c == so.m_data[pos + 1]
      step == IF c >= 128
                THEN (IF c < 224 THEN 2 ELSE IF c < 240 THEN 3 ELSE 4)
              ELSE 1
      r == pos + step
  IN IF pos >= sz THEN lean_box(sz)
     ELSE lean_box(IF r > sz THEN sz ELSE r)

\* the loop of lean_string_utf8_prev: (x & 0xC0) == 0x80 is x \div 64 = 2
RECURSIVE PrevScan(_, _, _)
PrevScan(so, pos, g) ==
  IF pos > 0 /\ ByteAt(so, pos, g) \div 64 = 2 THEN PrevScan(so, pos - 1, g)
  ELSE pos

\* variant: one byte back, whatever the byte there is
lean_string_utf8_prev_OneBack(h, s, i, g) ==
  IF lean_unbox(i) = 0 THEN lean_box(0) ELSE lean_box(lean_unbox(i) - 1)

\* the byte offset of the first non-continuation byte before offset i
lean_string_utf8_prev(h, s, i, g) ==
  LET pos == lean_unbox(i) IN
  IF pos = 0 THEN lean_box(0) ELSE lean_box(PrevScan(h[s], pos - 1, g))

\* the decoding loop of lean_string_data from byte offset p with idx
\* characters stored: the characters it stores in chars, in order
RECURSIVE DataLoop(_, _, _, _)
DataLoop(so, p, idx, g) ==
  IF p < Len(so.m_data) - 1 /\ idx < so.m_length
    THEN LET c == ByteAt(so, p, g)
             step == IF c < 128 THEN 1 ELSE IF c < 224 THEN 2
                     ELSE IF c < 240 THEN 3 ELSE 4
         IN <<Utf8DecodeAt(so, p, g)>> \o DataLoop(so, p + step, idx + 1, g)
  ELSE <<>>

\* String to List Char.  The scratch buffer chars is a malloc block (its
\* m_data the characters stored); malloc is not checked: when it returned
\* NULL a store to chars[0] is a store through a null pointer, which traps
\* (ub = "abort") or lands in the memory at address 0, from where the
\* second loop reads the characters back (ub = "corrupt").  List.cons is
\* constructor 1 with the fields (head, tail), List.nil is the scalar 0.
lean_string_data(st, s, g) ==
  LET so == st.heap[s]
      chars == DataLoop(so, 0, 0, g)
      null == FreeAddrs(st.heap) = {}
      buf == FirstFree(st.heap)
      s0 == IF null THEN [st EXCEPT !.nomem = TRUE]
            ELSE [st EXCEPT !.heap[buf] =
                    [FreeSlot EXCEPT !.m_tag = "malloc", !.m_data = chars]]
      RECURSIVE Conses(_, _, _)
      Conses(s1, i, r) ==
        IF i = 0 THEN [s1 EXCEPT !.ret = r]
        ELSE LET s2 == lean_alloc_ctor(s1, <<lean_box(chars[i]), r>>) IN
             IF s2.oom THEN s2
             ELSE Conses([s2 EXCEPT !.heap[s2.ret].m_cidx = 1], i - 1, s2.ret)
      s3 == Conses(s0, Len(chars), lean_box(0))
  IN IF null /\ chars # <<>> /\ st.ub = "abort"
       THEN [s0 EXCEPT !.panic = "trap", !.ret = 0]
     ELSE IF s3.oom THEN s3
     ELSE LET s4 == IF null THEN s3 ELSE [s3 EXCEPT !.heap[buf] = FreeSlot]
          IN [lean_dec(s4, s, 0) EXCEPT !.ret = s3.ret]

\* the indices of m_data (counted from 0) the decoding steps read at pos
Utf8DecodeReads(so, pos, g) ==
  LET c == ByteAt(so, pos, g) IN
  {pos} \cup (IF c < 128 THEN {}
              ELSE IF c < 224 THEN {pos + 1}
              ELSE IF c < 240 THEN {pos + 1, pos + 2}
              ELSE {pos + 1, pos + 2, pos + 3})

\* the indices lean_string_utf8_get reads
Utf8GetReads(so, pos, g) ==
  IF pos >= Len(so.m_data) - 1 THEN {} ELSE Utf8DecodeReads(so, pos, g)

\* the indices the loop of lean_string_utf8_prev reads, and those of the call
RECURSIVE PrevScanReads(_, _, _)
PrevScanReads(so, pos, g) ==
  IF pos > 0
    THEN {pos} \cup (IF ByteAt(so, pos, g) \div 64 = 2
                       THEN PrevScanReads(so, pos - 1, g) ELSE {})
  ELSE {}

Utf8PrevReads(so, i, g) ==
  IF lean_unbox(i) = 0 THEN {} ELSE PrevScanReads(so, lean_unbox(i) - 1, g)

\* the indices the decoding loop of lean_string_data reads
RECURSIVE DataLoopReads(_, _, _, _)
DataLoopReads(so, p, idx, g) ==
  IF p < Len(so.m_data) - 1 /\ idx < so.m_length
    THEN LET c == ByteAt(so, p, g)
             step == IF c < 128 THEN 1 ELSE IF c < 224 THEN 2
                     ELSE IF c < 240 THEN 3 ELSE 4
         IN Utf8DecodeReads(so, p, g) \cup DataLoopReads(so, p + step, idx + 1, g)
  ELSE {}

(* ------------------------------- panics -------------------------------- *)
lean_internal_panic_unreachable(st) == lean_internal_panic(st, "unreachable")

\* lean_dec(msg); return default_val;
lean_panic_fn(st, default_val, msg) ==
  [lean_dec(st, msg, 0) EXCEPT !.ret = default_val]

lean_array_get_panic(st, def_val) == [st EXCEPT !.ret = def_val]

lean_array_set_panic(st, a, v) == [lean_dec(st, v, 0) EXCEPT !.ret = a]

\* Array.back: the last element, retained; the array is borrowed
l_Array_back___redArg(st, a) ==
  LET o == st.heap[a] IN
  IF Len(o.m_data) = 0 THEN lean_internal_panic(st, "Array.back: empty array")
  ELSE LET v == o.m_data[Len(o.m_data)] IN [lean_inc(st, v) EXCEPT !.ret = v]

(* --------------------------- small naturals ---------------------------- *)
\* size_t has 32 bits in this build; a size_t is held as two 16-bit limbs,
\* lowest first.  LEAN_MAX_SMALL_NAT is SIZE_MAX >> 1.
LEAN_MAX_SMALL_NAT == 2147483647

\* fprintf(stderr, "WASM: big nat operation not supported: ...") and abort()
big_nat_panic(st, fn) == [st EXCEPT !.panic = fn, !.ret = 0]

\* a1 * a2 of two size_t values: the product modulo 2^32
SizeMul(a, b) ==
  LET \* the product of two 16-bit numbers, in two limbs
      mul16(x, y) ==
        LET p0 == (x % 256) * y
            p1 == (x \div 256) * y
            t == p0 + 256 * (p1 % 256)
        IN <<t % 65536, (t \div 65536) + (p1 \div 256)>>
      ll == mul16(a[1], b[1])
  IN <<ll[1], (ll[2] + mul16(a[2], b[1])[1] + mul16(a[1], b[2])[1]) % 65536>>

\* result after the iterations i, i+1, .. of the loop of lean_nat_pow
RECURSIVE PowLoop(_, _, _, _, _)
PowLoop(st, result, base, i, exp) ==
  IF i >= exp THEN [st EXCEPT !.ret = lean_box(result[2] * 65536 + result[1])]
  ELSE LET r == SizeMul(result, base) IN
       \* result > LEAN_MAX_SMALL_NAT: bit 31 is set
       IF r[2] >= 32768 THEN big_nat_panic(st, "lean_nat_pow (overflow)")
       ELSE PowLoop(st, r, base, i + 1, exp)

lean_nat_pow(st, a1, a2) ==
  IF lean_is_scalar(a1) /\ lean_is_scalar(a2)
    THEN LET base == lean_unbox(a1) IN
         PowLoop(st, <<1, 0>>, <<base % 65536, base \div 65536>>, 0,
                 lean_unbox(a2))
  ELSE big_nat_panic(st, "lean_nat_pow (big)")

lean_nat_shiftl(st, a1, a2) ==
  LET v == lean_unbox(a1)
      s == lean_unbox(a2)
      \* x << k and x >> k of a size_t
      RECURSIVE shl(_, _)
      shl(x, k) ==
        IF k = 0 THEN x
        ELSE shl(<<(2 * x[1]) % 65536,
                   (2 * x[2] + (x[1] \div 32768)) % 65536>>, k - 1)
      RECURSIVE shr(_, _)
      shr(x, k) ==
        IF k = 0 THEN x
        ELSE shr(<<(x[1] \div 2) + 32768 * (x[2] % 2), x[2] \div 2>>, k - 1)
      vl == <<v % 65536, v \div 65536>>
      r == shl(vl, s)
  IN IF lean_is_scalar(a1) /\ lean_is_scalar(a2) /\ s < 32
          /\ r[2] < 32768 /\ (s = 0 \/ shr(r, s) = vl)
       THEN [st EXCEPT !.ret = lean_box(r[2] * 65536 + r[1])]
     ELSE big_nat_panic(st, "lean_nat_shiftl (overflow)")

(* ------------------------------ closures ------------------------------- *)
\* the compiled functions a closure may point to: mk_ctor stores its
\* arguments in a new constructor object, mk_closure binds them in a new
\* closure over mk_ctor that expects one more argument, mk_closure2 binds
\* them in a new closure over mk_closure that expects one more argument;
\* id returns its argument, drop releases its argument and returns the
\* scalar 0 (both take one argument); until is a loop body with the
\* arguments (k, index, acc): ForInStep.done acc (constructor 0) from index
\* k on, ForInStep.yield (acc + index + 1) (constructor 1) below it
NativeFun(st, fn, a) ==
  IF fn = "until"
    THEN LET done == lean_unbox(a[2]) >= lean_unbox(a[1])
             s1 == lean_alloc_ctor(
                     st, <<IF done THEN a[3]
                           ELSE lean_box(lean_unbox(a[3]) + lean_unbox(a[2]) + 1)>>)
         IN IF s1.oom THEN s1
            ELSE [s1 EXCEPT !.heap[s1.ret].m_cidx = IF done THEN 0 ELSE 1]
  ELSE IF fn = "id" THEN [st EXCEPT !.ret = a[1]]
  ELSE IF fn = "drop" THEN [lean_dec(st, a[1], 0) EXCEPT !.ret = lean_box(0)]
  ELSE IF fn = "mk_ctor" THEN lean_alloc_ctor(st, a)
  ELSE IF fn = "mk_closure" THEN lean_alloc_closure(st, "mk_ctor", Len(a) + 1, a)
  ELSE lean_alloc_closure(st, "mk_closure", Len(a) + 1, a)

\* the size of the argument buffer all_args and the largest arity
\* lean_call_with_args dispatches
MaxClosureArity == 16

\* variant: the arguments reach the function in reverse order
lean_call_with_args_Rev(st, fn, arity, a) ==
  IF arity < 1 \/ arity > MaxClosureArity
    THEN lean_internal_panic(st, "lean_call_with_args: arity > 16")
  ELSE LET r == [i \in 1..Len(a) |-> a[Len(a) + 1 - i]] IN
       NativeFun([st EXCEPT !.calls = Append(@, [fn |-> fn, args |-> r])], fn, r)

lean_call_with_args(st, fn, arity, a) ==
  IF arity < 1 \/ arity > MaxClosureArity
    THEN lean_internal_panic(st, "lean_call_with_args: arity > 16")
  ELSE NativeFun([st EXCEPT !.calls = Append(@, [fn |-> fn, args |-> a])],
                 fn, a)

\* variant of the under-application branch: the supplied arguments are
\* stored in front of the fixed ones
UnderApply_Front(st, f, args) ==
  LET c == st.heap[f]
      s1 == lean_alloc_closure(st, c.m_fun, c.m_arity, args \o c.m_objs)
  IN IF s1.oom THEN s1
     ELSE LET s2 == IncAll(s1, c.m_objs)
              s3 == lean_dec(s2, f, 0)
          IN [s3 EXCEPT !.ret = s1.ret]

\* variant of the under-application branch: the old fixed arguments are not
\* copied into the new closure
UnderApply_Drop(st, f, args) ==
  LET c == st.heap[f]
      s1 == lean_alloc_closure(st, c.m_fun, c.m_arity, args)
  IN IF s1.oom THEN s1
     ELSE [lean_dec(s1, f, 0) EXCEPT !.ret = s1.ret]

\* the under-application branch of lean_apply_m
UnderApply(st, f, args) ==
  LET c == st.heap[f]
      s1 == lean_alloc_closure(st, c.m_fun, c.m_arity, c.m_objs \o args)
  IN IF s1.oom THEN s1
     ELSE LET s2 == IncAll(s1, c.m_objs)
              s3 == lean_dec(s2, f, 0)
          IN [s3 EXCEPT !.ret = s1.ret]

\* variant of the over-application step: the leftover arguments are dropped
\* down to the last one
Leftover_Last(args, remaining) == SubSeq(args, Len(args), Len(args))

\* args + remaining, n - remaining
Leftover(args, remaining) == SubSeq(args, remaining + 1, Len(args))

\* all_args[0 .. arity-1] is written before lean_call_with_args looks at the
\* arity; a write at index >= 16 is outside the buffer
RECURSIVE lean_apply_m(_, _, _)
lean_apply_m(st, f, args) ==
  LET c == st.heap[f]
      n == Len(args)
      remaining == c.m_arity - Len(c.m_objs)
  IN IF ~IsLive(st.heap, f) \/ c.m_tag # "closure"
       THEN [st EXCEPT !.fault = TRUE]
     ELSE IF n < remaining THEN UnderApply(st, f, args)
     ELSE
       LET s1 == [IncAll(st, c.m_objs) EXCEPT !.top = Max(@, c.m_arity - 1)]
           all_args == c.m_objs \o SubSeq(args, 1, remaining)
       IN IF c.m_arity > MaxClosureArity /\ st.ub = "corrupt"
            THEN [s1 EXCEPT !.fault = TRUE]
          ELSE
            LET s2 == lean_call_with_args(s1, c.m_fun, c.m_arity, all_args) IN
            IF s2.oom \/ s2.panic # "" THEN s2
            ELSE LET res == s2.ret
                     s3 == lean_dec(s2, f, 0)
                 IN IF n > remaining
                      THEN IF lean_is_scalar(res) THEN [s3 EXCEPT !.fault = TRUE]
                           ELSE lean_apply_m(s3, res, Leftover(args, remaining))
                      ELSE [s3 EXCEPT !.ret = res]

(* ---------------------------- secure zero ------------------------------ *)
\* memset(o->m_data, 0, o->m_size) when arr is exclusive; the world token w
\* is not used
lean_secure_zero(st, arr) ==
  LET s1 == IF lean_is_exclusive(st.heap, arr)
              THEN [st EXCEPT !.heap[arr].m_data = [i \in 1..Len(@) |-> 0]]
            ELSE st
  IN lean_io_result_mk_ok(s1, arr)

(* ----------------------------- array map ------------------------------- *)
\* Array.mapMUnsafe.map: the while loop from index i (counted from 0), then
\* lean_dec(f).  lean_apply_1(f, v) takes v as an owned argument.
RECURSIVE l___private_Init_Data_Array_Basic_0__Array_mapMUnsafe_map___redArg(_, _, _, _, _)
l___private_Init_Data_Array_Basic_0__Array_mapMUnsafe_map___redArg(st, f, sz, i, arr) ==
  LET o == st.heap[arr] IN
  IF i < sz /\ i < Len(o.m_data)
    THEN LET v == o.m_data[i + 1]
             s2 == lean_apply_m(lean_inc(st, f), f, <<v>>)
             nv == s2.ret
         IN IF s2.oom \/ s2.panic # "" \/ s2.fault THEN s2
            ELSE IF lean_is_exclusive(s2.heap, arr)
              THEN l___private_Init_Data_Array_Basic_0__Array_mapMUnsafe_map___redArg(
                     [s2 EXCEPT !.heap[arr].m_data[i + 1] = nv], f, sz, i + 1, arr)
            ELSE LET old == s2.heap[arr].m_data
                     s3 == lean_alloc_array(
                             s2, [j \in 1..Len(old) |->
                                    IF j = i + 1 THEN nv ELSE old[j]],
                             Len(old))
                     s4 == IncAll(s3, SubSeq(old, 1, i)
                                        \o SubSeq(old, i + 2, Len(old)))
                 IN IF s3.oom THEN s3
                    ELSE l___private_Init_Data_Array_Basic_0__Array_mapMUnsafe_map___redArg(
                           lean_dec(s4, arr, 0), f, sz, i + 1, s3.ret)
  ELSE [lean_dec(st, f, 0) EXCEPT !.ret = arr]

(* ----------------------------- range loop ------------------------------ *)
\* the while loop of Std.Range.forIn'.loop with s, e and cur unboxed
RECURSIVE ForInWhile(_, _, _, _, _, _)
ForInWhile(st, f, s, e, cur, acc) ==
  IF cur < e
    THEN LET s2 == lean_apply_m(lean_inc(st, f), f, <<lean_box(cur), acc>>)
             pair == s2.ret
             a2 == s2.heap[pair].m_objs[1]
             s3 == lean_dec(lean_inc(s2, a2), pair, 0)
         IN IF s2.oom \/ s2.panic # "" \/ s2.fault THEN s2
            ELSE IF s2.heap[pair].m_cidx = 0
              THEN ForInWhile(s3, f, s, e, cur + s, a2)
            ELSE [lean_dec(s3, f, 0) EXCEPT !.ret = a2]
  ELSE [lean_dec(st, f, 0) EXCEPT !.ret = acc]

l___private_Init_Data_Range_Basic_0__Std_Range_forIn_x27_loop___redArg(st, f, step, stop, i, acc) ==
  LET s == IF lean_unbox(step) = 0 THEN 1 ELSE lean_unbox(step) IN
  ForInWhile(st, f, s, lean_unbox(stop), lean_unbox(i), acc)

(* ------------------------------ ref cells ------------------------------ *)
lean_st_mk_ref(st, a) ==
  LET s1 == lean_alloc_object(st, [FreeSlot EXCEPT !.m_tag = "ref",
                                                   !.m_objs = <<a>>])
  IN IF s1.oom THEN s1 ELSE lean_io_result_mk_ok(s1, s1.ret)

lean_st_ref_get(st, r) ==
  LET v == st.heap[r].m_objs[1] IN
  lean_io_result_mk_ok(lean_inc(st, v), v)

lean_st_ref_set(st, r, v) ==
  LET old == st.heap[r].m_objs[1]
      s1 == [st EXCEPT !.heap[r].m_objs = <<v>>]
      s2 == lean_dec(s1, old, 0)
  IN lean_io_result_mk_ok(s2, lean_box(0))

\* variant: the value stays in the cell
lean_st_ref_take_Keep(st, r) ==
  LET v == st.heap[r].m_objs[1] IN lean_io_result_mk_ok(st, v)

lean_st_ref_take(st, r) ==
  LET v == st.heap[r].m_objs[1] IN
  lean_io_result_mk_ok([st EXCEPT !.heap[r].m_objs = <<lean_box(0)>>], v)

lean_st_ref_swap(st, r, v) ==
  LET old == st.heap[r].m_objs[1] IN
  lean_io_result_mk_ok([st EXCEPT !.heap[r].m_objs = <<v>>], old)

lean_st_ref_reset(st, r) ==
  LET old == st.heap[r].m_objs[1]
      s1 == [st EXCEPT !.heap[r].m_objs = <<lean_box(0)>>]
      s2 == lean_dec(s1, old, 0)
  IN lean_io_result_mk_ok(s2, lean_box(0))

(* ----------------------------- host bridge ----------------------------- *)
\* A buffer handed to the host is a malloc block without an object header:
\* tag "malloc", its bytes in m_data.  NULL is 0.
NULL == 0

\* the exported operations modelled and the compiled function each calls;
\* the other js_* functions have the body of one of these with another
\* compiled function
CoreOf ==
  [js_sha256 |-> "wasm_sha256", js_bytes_to_hex |-> "wasm_bytes_to_hex",
   js_huffman_encode |-> "wasm_huffman_encode",
   js_hmac_sha256 |-> "wasm_hmac_sha256"]

JsOps == DOMAIN CoreOf

\* The compiled functions wasm_*: each takes owned byte arrays and returns
\* an owned byte array that is a function of the argument bytes.  A digest
\* (two bytes here, depending on every byte and on their order) is a new
\* object, made before the arguments are released; the hex text (two bytes
\* for each byte) of no bytes is the global l_ByteArray_empty; the encoder
\* rewrites its exclusive argument and returns it.
CoreOp(st, fn, args) ==
  LET bytes == IF Len(args) = 1 THEN st.heap[args[1]].m_data
               ELSE st.heap[args[1]].m_data \o st.heap[args[2]].m_data
      l == HashLoop(<<7, 0, 0, 0>>, bytes, 0, Len(bytes))[1]
      hex(n) == IF n < 10 THEN 48 + n ELSE 87 + n
      decAll(s) ==
        IF Len(args) = 1 THEN lean_dec(s, args[1], 0)
        ELSE lean_dec(lean_dec(s, args[1], 0), args[2], 0)
      fresh(data) ==
        LET s1 == lean_alloc_sarray(st, data, Len(data)) IN
        IF s1.oom THEN s1 ELSE [decAll(s1) EXCEPT !.ret = s1.ret]
  IN CASE fn \in {"wasm_sha256", "wasm_hmac_sha256"} ->
            fresh(<<l % 256, l \div 256>>)
       [] fn = "wasm_bytes_to_hex" ->
            IF bytes = <<>>
              THEN [decAll(st) EXCEPT !.ret = l_ByteArray_empty]
            ELSE fresh([i \in 1..(2 * Len(bytes)) |->
                          IF i % 2 = 1 THEN hex(bytes[(i + 1) \div 2] \div 16)
                          ELSE hex(bytes[i \div 2] % 16)])
       [] fn = "wasm_huffman_encode" ->
            [st EXCEPT !.heap[args[1]].m_data =
                         [i \in 1..Len(bytes) |-> 255 - bytes[i]],
                       !.ret = args[1]]

\* malloc(len), memcpy, *total_len = len; a failed malloc gives NULL, and
\* the length is stored all the same
export_byte_array(st, arr) ==
  LET data == st.heap[arr].m_data
      len == Len(data)
  IN IF FreeAddrs(st.heap) = {}
       THEN [st EXCEPT !.ret = NULL, !.out = <<len>>, !.nomem = TRUE]
     ELSE LET buf == FirstFree(st.heap) IN
          [st EXCEPT !.heap[buf] =
                       [FreeSlot EXCEPT !.m_tag = "malloc", !.m_data = data],
                     !.ret = buf, !.out = <<len>>]

\* the call of the compiled function, with the argument objects as they are
\* passed, the object returned and its bytes
CoreCall(st, fn, args) ==
  LET passed == [i \in 1..Len(args) |-> [ptr |-> args[i], obj |-> st.heap[args[i]]]]
      s1 == CoreOp(st, fn, args)
  IN IF s1.oom THEN s1
     ELSE [s1 EXCEPT !.calls =
                       Append(@, [fn |-> fn, args |-> passed, res |-> s1.ret,
                                  bytes |-> s1.heap[s1.ret].m_data])]

js_sha256(st, core, data) ==
  LET s1 == mk_byte_array(st, data)
      s2 == CoreCall(s1, core, <<s1.ret>>)
  IN IF s1.oom THEN s1
     ELSE IF s2.oom THEN s2
     ELSE export_byte_array(s2, s2.ret)

js_hmac_sha256(st, core, key, msg) ==
  LET s1 == mk_byte_array(st, key)
      s2 == mk_byte_array(s1, msg)
      s3 == CoreCall(s2, core, <<s1.ret, s2.ret>>)
  IN IF s1.oom THEN s1
     ELSE IF s2.oom THEN s2
     ELSE IF s3.oom THEN s3
     ELSE export_byte_array(s3, s3.ret)

\* free(ptr); free(NULL) does nothing
js_free(st, ptr) ==
  IF ptr = NULL THEN st ELSE [st EXCEPT !.heap[ptr] = FreeSlot]

(* ------------------------------ IO stubs ------------------------------- *)
\* EStateM.Result.error (constructor 1) of IO.Error.userError (constructor
\* 2) of the message; m_cidx is the constructor index given to
\* lean_alloc_ctor.  wasm_io_error of init_stubs_wasm.c has the same body.
mk_io_error(st, msg) ==
  LET s1 == lean_mk_string(st, msg)
      s2 == lean_alloc_ctor(s1, <<s1.ret>>)
      s3 == lean_alloc_ctor([s2 EXCEPT !.heap[s2.ret].m_cidx = 2], <<s2.ret>>)
  IN IF s1.oom THEN s1
     ELSE IF s2.oom THEN s2
     ELSE IF s3.oom THEN s3
     ELSE [s3 EXCEPT !.heap[s3.ret].m_cidx = 1]

FsOps == {"l_IO_FS_readFile", "l_IO_FS_readBinFile", "lean_io_read_dir"}
CryptoOps ==
  {"lean_crypto_sha256", "lean_crypto_hmac_sha256",
   "lean_crypto_aes128_gcm_encrypt", "lean_crypto_aes128_gcm_decrypt",
   "lean_crypto_x25519_base", "lean_crypto_x25519"}
PromiseOps ==
  {"lean_io_promise_new", "lean_io_promise_resolve",
   "lean_io_promise_result_opt"}
RandomOps == {"lean_io_get_random_bytes", "lean_crypto_random_bytes"}
TaskOps ==
  {"lean_io_get_task_state_core", "lean_io_check_canceled_core",
   "lean_io_cancel_core"}

\* the number of arguments of a stub, the world token not counted
StubArity(op) ==
  IF op \in {"lean_io_promise_new", "lean_io_check_canceled_core"} THEN 0
  ELSE IF op \in {"lean_crypto_hmac_sha256", "lean_crypto_x25519",
                  "lean_io_promise_resolve"} THEN 2
  ELSE IF op \in {"lean_crypto_aes128_gcm_encrypt",
                  "lean_crypto_aes128_gcm_decrypt"} THEN 4
  ELSE 1

\* the body of stub op: lean_dec on each argument in order and an error
\* with the message of its family, or for two of the promise stubs the
\* success result of the unit value; a byte array of n zero bytes in a
\* success result for the random stubs; a constant for the task stubs
IoStub(st, op, args) ==
  LET RECURSIVE decFrom(_, _)
      decFrom(s, i) ==
        IF i > Len(args) THEN s ELSE decFrom(lean_dec(s, args[i], 0), i + 1)
      ba == lean_alloc_sarray(st, [i \in 1..lean_unbox(args[1]) |-> 0],
                              lean_unbox(args[1]))
  IN CASE op \in FsOps ->
            mk_io_error(decFrom(st, 1),
                        <<102, 105, 108, 101, 115, 121, 115, 116, 101, 109, 32, 110,
                          111, 116, 32, 97, 118, 97, 105, 108, 97, 98, 108, 101, 32,
                          105, 110, 32, 87, 65, 83, 77>>)
       [] op \in CryptoOps ->
            mk_io_error(decFrom(st, 1),
                        <<99, 114, 121, 112, 116, 111, 32, 70, 70, 73, 32, 110, 111,
                          116, 32, 97, 118, 97, 105, 108, 97, 98, 108, 101, 32, 105,
                          110, 32, 87, 65, 83, 77>>)
       [] op = "lean_io_promise_new" ->
            mk_io_error(st,
                        <<112, 114, 111, 109, 105, 115, 101, 115, 32, 110, 111, 116,
                          32, 97, 118, 97, 105, 108, 97, 98, 108, 101, 32, 105, 110,
                          32, 87, 65, 83, 77>>)
       [] op \in {"lean_io_promise_resolve", "lean_io_promise_result_opt"} ->
            lean_io_result_mk_ok(decFrom(st, 1), lean_box(0))
       [] op \in RandomOps ->
            IF ba.oom THEN ba ELSE lean_io_result_mk_ok(ba, ba.ret)
       [] op = "lean_io_get_task_state_core" -> [st EXCEPT !.out = <<2>>]
       [] op = "lean_io_check_canceled_core" -> [st EXCEPT !.out = <<0>>]
       [] op = "lean_io_cancel_core" -> st

\* variant: the closure is returned as it is, to be run later
lean_io_as_task_Lazy(st, closure) == [st EXCEPT !.ret = closure]

\* lean_apply_1(closure, lean_box(0)), which is lean_apply_m with one
\* argument
lean_io_as_task(st, closure) == lean_apply_m(st, closure, <<lean_box(0)>>)

(* ------------------------------ the machine ---------------------------- *)
VARIABLES heap, roots, fault, last, prev, pushed, applied, pre, fuel

vars == <<heap, roots, fault, last, prev, pushed, applied, pre, fuel>>

\* last records the last call made, its result and what it did; prev is the
\* call before it when that was a lean_inc, or the bridge call whose buffer
\* a js_free has just released, with the bytes and the length it gave, kept
\* over the bridge call that follows the js_free;
\* pre is the heap the last call started from; pushed[o] is the sequence of
\* values pushed, in order, onto an empty array, byte array or string to make
\* object o (Unknown for an object made or changed otherwise); applied[o] is
\* the sequence of arguments supplied, in order, by lean_apply_m calls to a
\* closure allocated without fixed arguments to make object o.
NoCall == [op |-> "init", args |-> <<>>, ret |-> 0, depth |-> 0,
           freed |-> <<>>, allocs |-> <<>>, calls |-> <<>>, panic |-> "",
           top |-> 0 - 1, out |-> <<>>, nomem |-> FALSE]

NoPrev == [op |-> "other", args |-> <<>>, out |-> <<>>]

Unknown == [ok |-> FALSE, vals |-> <<>>]
Known(vs) == [ok |-> TRUE, vals |-> vs]

\* the state after the constructor init_wasm_globals has run; the program
\* then makes n calls
Start(n) ==
  /\ heap = init_wasm_globals.heap
  /\ roots = [a \in Addr |-> 0]
  /\ fault = FALSE
  /\ last = NoCall
  /\ prev = NoPrev
  /\ pushed = [o \in Addr |->
                 IF o \in {l_Array_empty, l_ByteArray_empty} THEN Known(<<>>)
                 ELSE Unknown]
  /\ applied = [o \in Addr |-> Unknown]
  /\ pre = init_wasm_globals.heap
  /\ fuel = n

Init == Start(MaxSteps)

IsImmortal(h, v) == ~lean_is_scalar(v) /\ h[v].m_rc = 0

\* objects the program holds an owning reference to; a reference to an
\* immortal object needs no ownership
Owned == {a \in Addr : IsLive(heap, a) /\ (roots[a] > 0 \/ heap[a].m_rc = 0)}

\* objects the program can reach, and so pass as a borrowed argument
RECURSIVE ReachFrom(_, _)
ReachFrom(S, k) ==
  LET T == S \cup {c \in Addr : \E p \in S :
                     IsLive(heap, p) /\ Occ(Children(heap[p]), c) > 0}
  IN IF k = 0 \/ T = S THEN S ELSE ReachFrom(T, k - 1)
Borrowable == {a \in ReachFrom(Owned, MaxObjs) : IsLive(heap, a)}

OfTag(S, t) == {a \in S : heap[a].m_tag = t}

\* take the owned references vs out of the roots
RECURSIVE Take(_, _)
Take(r, vs) ==
  IF vs = <<>> THEN r
  ELSE LET v == vs[1] IN
       Take(IF lean_is_scalar(v) \/ IsImmortal(heap, v)
              THEN r ELSE [r EXCEPT ![v] = @ - 1],
            Tail(vs))

\* the program holds enough references for the owned arguments vs
CanTake(vs) ==
  \A a \in Addr :
    Occ(vs, a) > 0 =>
      /\ IsLive(heap, a)
      /\ (heap[a].m_rc = 0 \/ Occ(vs, a) <= roots[a])

Give(r, h, v) ==
  IF lean_is_scalar(v) \/ IsImmortal(h, v) THEN r ELSE [r EXCEPT ![v] = @ + 1]

\* a borrowed argument b stays referenced while the owned argument o is
\* consumed: they are different objects, or another reference keeps b alive
StaysBorrowed(b, o) == b # o \/ heap[o].m_rc # 1

\* pushed[o] after call op(args) with outcome s
PushedAfter(op, args, s, o) ==
  IF op \in {"lean_array_push", "lean_byte_array_push"} /\ s.ret = o
    THEN (IF pushed[args[1]].ok
            THEN Known(Append(pushed[args[1]].vals, args[2]))
          ELSE Unknown)
  ELSE IF op = "lean_mk_array" /\ s.ret = o /\ args[1] = 0 THEN Known(<<>>)
  ELSE IF op = "mk_byte_array" /\ s.ret = o /\ args[1] = <<>> THEN Known(<<>>)
  ELSE IF op = "lean_string_push" /\ s.ret = o
    THEN (IF pushed[args[1]].ok
            THEN Known(Append(pushed[args[1]].vals, args[2]))
          ELSE Unknown)
  ELSE IF op = "lean_mk_string" /\ s.ret = o /\ args[1] = <<>> THEN Known(<<>>)
  ELSE IF s.ret = o \/ (\E i \in 1..Len(s.allocs) : s.allocs[i] = o)
          \/ (\E i \in 1..Len(s.freed) : s.freed[i] = o)
    THEN Unknown
  ELSE pushed[o]

\* applied[o] after call op(args) with outcome s
AppliedAfter(op, args, s, o) ==
  IF op = "lean_alloc_closure" /\ s.ret = o /\ s.heap[o].m_objs = <<>>
    THEN Known(<<>>)
  ELSE IF op = "lean_apply_m" /\ s.ret = o
    THEN (IF applied[args[1]].ok
            THEN Known(applied[args[1]].vals \o args[2])
          ELSE Unknown)
  ELSE IF s.ret = o \/ (\E i \in 1..Len(s.allocs) : s.allocs[i] = o)
          \/ (\E i \in 1..Len(s.freed) : s.freed[i] = o)
    THEN Unknown
  ELSE applied[o]

\* a call that ended in lean_internal_panic_out_of_memory: the program has
\* aborted inside op, which returned nothing, and makes no further call
Abort(op, s) ==
  /\ s.oom
  /\ last' = [NoCall EXCEPT !.op = "abort", !.args = <<op>>,
                            !.panic = "out of memory", !.nomem = s.nomem]
  /\ fuel' = 0
  /\ UNCHANGED <<heap, roots, fault, prev, pushed, applied, pre>>

\* one call: s is its outcome, the owned arguments leave the roots and the
\* result (when resultOwned) enters them; after a call that ends in
\* lean_internal_panic the program makes no further call
Call(op, args, owned, s, resultOwned) ==
  /\ CanTake(owned)
  /\ IF s.oom THEN Abort(op, s)
     ELSE
      /\ heap' = s.heap
      /\ roots' = (IF resultOwned THEN Give(Take(roots, owned), s.heap, s.ret)
                   ELSE Take(roots, owned))
      /\ fault' = (fault \/ s.fault)
      /\ last' = [op |-> op, args |-> args, ret |-> s.ret,
                   depth |-> s.depth, freed |-> s.freed,
                   allocs |-> s.allocs, calls |-> s.calls, panic |-> s.panic,
                   top |-> s.top, out |-> s.out, nomem |-> s.nomem]
      /\ prev' = (IF op = "js_free" /\ last.op \in JsOps /\ last.ret # NULL
                      /\ args[1] = last.ret
                   THEN [op |-> last.op, args |-> last.args,
                         out |-> <<heap[last.ret].m_data, last.out>>]
                 ELSE IF op \in JsOps /\ last.op = "js_free" THEN prev
                 ELSE IF last.op = "lean_inc"
                   THEN [op |-> last.op, args |-> last.args, out |-> <<>>]
                 ELSE NoPrev)
      /\ pushed' = [o \in Addr |-> PushedAfter(op, args, s, o)]
      /\ applied' = [o \in Addr |-> AppliedAfter(op, args, s, o)]
      /\ pre' = heap
      /\ fuel' = (IF s.panic # "" THEN 0 ELSE fuel - 1)

\* the (start, stop) pairs and the (srcOff, dstOff, len, exact) tuples tried
FewRanges == {<<0, 1>>, <<2, 1>>}
Slices == {<<1, 1, 2, FALSE>>}
\* the (function, arity) pairs closures are made of
Funs == {<<"mk_ctor", 2>>, <<"mk_closure", 1>>}

NonEmptySeqs(S, n) == UNION {[1..k -> S] : k \in 1..n}

AllocCtor(V) ==
  fuel > 0 /\ \E fs \in NonEmptySeqs(V, MaxFields) :
    Call("lean_alloc_ctor", fs, fs, lean_alloc_ctor(MkSt(heap), fs), TRUE)

Inc(S) ==
  fuel > 0 /\ \E o \in S :
    /\ heap[o].m_rc < MaxRc
    /\ Call("lean_inc", <<o>>, <<>>,
            [lean_inc(MkSt(heap), o) EXCEPT !.ret = o], TRUE)

Dec ==
  fuel > 0 /\ \E o \in Owned :
    Call("lean_dec", <<o>>, <<o>>, lean_dec(MkSt(heap), o, 0), FALSE)

MarkPersistent ==
  fuel > 0 /\ \E o \in Owned :
    Call("lean_mark_persistent", <<o>>, <<>>,
         lean_mark_persistent(MkSt(heap), o), FALSE)

MkArray(N, V) ==
  fuel > 0 /\ \E n \in N, v \in V :
    Call("lean_mk_array", <<n, v>>, <<v>>, lean_mk_array(MkSt(heap), n, v), TRUE)

ArrayPush(V) ==
  fuel > 0 /\ \E a \in OfTag(Owned, "array"), v \in V :
    /\ Len(heap[a].m_data) < MaxLen
    /\ Call("lean_array_push", <<a, v>>, <<a, v>>,
            lean_array_push(MkSt(heap), a, v), TRUE)

ArrayExtract(R) ==
  fuel > 0 /\ \E a \in OfTag(Borrowable, "array"), r \in R :
    Call("l_Array_extract___redArg", <<a, r[1], r[2]>>, <<>>,
         l_Array_extract___redArg(MkSt(heap), a, r[1], r[2]), TRUE)

MkByteArray(D) ==
  fuel > 0 /\ \E data \in D :
    Call("mk_byte_array", <<data>>, <<>>, mk_byte_array(MkSt(heap), data), TRUE)

ByteArrayPush(B) ==
  fuel > 0 /\ \E a \in OfTag(Owned, "sarray"), b \in B :
    /\ Len(heap[a].m_data) < MaxLen
    /\ Call("lean_byte_array_push", <<a, b>>, <<a>>,
            lean_byte_array_push(MkSt(heap), a, b), TRUE)

ByteArrayCopySlice(S, P) ==
  fuel > 0 /\ \E src \in OfTag(S, "sarray"), dst \in OfTag(Owned, "sarray"),
     p \in P :
    /\ Len(heap[dst].m_data) + p[3] <= MaxLen
    /\ StaysBorrowed(src, dst)
    /\ Call("lean_byte_array_copy_slice",
            <<src, p[1], dst, p[2], p[3], p[4]>>, <<dst>>,
            lean_byte_array_copy_slice(MkSt(heap), src, p[1], dst, p[2], p[3],
                                       p[4]),
            TRUE)

ByteArrayExtract(R) ==
  fuel > 0 /\ \E a \in OfTag(Borrowable, "sarray"), r \in R :
    Call("l_ByteArray_extract", <<a, r[1], r[2]>>, <<>>,
         l_ByteArray_extract(MkSt(heap), a, r[1], r[2]), TRUE)

MkString(L) ==
  fuel > 0 /\ \E lit \in L :
    Call("lean_mk_string", <<lit>>, <<>>, lean_mk_string(MkSt(heap), lit), TRUE)

StringPush(C) ==
  fuel > 0 /\ \E s \in OfTag(Owned, "string"), c \in C :
    /\ Len(heap[s].m_data) <= MaxLen \/ heap[s].m_capacity = Len(heap[s].m_data)
    /\ Call("lean_string_push", <<s, c>>, <<s>>,
            lean_string_push(MkSt(heap), s, c), TRUE)

StringAppend ==
  fuel > 0 /\ \E s1 \in OfTag(Owned, "string"), s2 \in OfTag(Borrowable, "string") :
    /\ Len(heap[s1].m_data) <= MaxLen
    /\ StaysBorrowed(s2, s1)
    /\ Call("lean_string_append", <<s1, s2>>, <<s1>>,
            lean_string_append(MkSt(heap), s1, s2), TRUE)

StringExtract(R) ==
  fuel > 0 /\ \E s \in OfTag(Borrowable, "string"), r \in R :
    Call("lean_string_utf8_extract", <<s, r[1], r[2]>>, <<>>,
         lean_string_utf8_extract(MkSt(heap), s, r[1], r[2]), TRUE)

StringFromUtf8 ==
  fuel > 0 /\ \E ba \in OfTag(Owned, "sarray") :
    Call("lean_string_from_utf8_unchecked", <<ba>>, <<ba>>,
         lean_string_from_utf8_unchecked(MkSt(heap), ba), TRUE)

\* the result is a code point, not an object
StringGet(P, G) ==
  fuel > 0 /\ \E s \in OfTag(Borrowable, "string"), pos \in P, g \in G :
    Call("lean_string_utf8_get", <<s, pos>>, <<>>,
         [MkSt(heap) EXCEPT !.ret = lean_string_utf8_get(heap, s, pos, g)],
         FALSE)

\* the result is a boxed byte offset
StringNext(P) ==
  fuel > 0 /\ \E s \in OfTag(Borrowable, "string"), pos \in P :
    Call("lean_string_utf8_next", <<s, lean_box(pos)>>, <<>>,
         [MkSt(heap) EXCEPT !.ret = lean_string_utf8_next(heap, s, lean_box(pos))],
         FALSE)

StringPrev(P, G) ==
  fuel > 0 /\ \E s \in OfTag(Borrowable, "string"), pos \in P, g \in G :
    Call("lean_string_utf8_prev", <<s, lean_box(pos)>>, <<>>,
         [MkSt(heap) EXCEPT
            !.ret = lean_string_utf8_prev(heap, s, lean_box(pos), g)],
         FALSE)

StringValidate ==
  fuel > 0 /\ \E s \in OfTag(Borrowable, "string") :
    Call("lean_string_validate_utf8", <<s>>, <<>>,
         [MkSt(heap) EXCEPT !.out = <<lean_string_validate_utf8(heap, s)>>],
         FALSE)

ByteArrayBEq ==
  fuel > 0 /\ \E a \in OfTag(Borrowable, "sarray"),
                 b \in OfTag(Borrowable, "sarray") :
    Call("l_ByteArray_instBEq_beq", <<a, b>>, <<>>,
         [MkSt(heap) EXCEPT !.out = <<l_ByteArray_instBEq_beq(heap, a, b)>>],
         FALSE)

StringEq ==
  fuel > 0 /\ \E s1 \in OfTag(Borrowable, "string"),
                 s2 \in OfTag(Borrowable, "string") :
    Call("lean_string_eq_cold", <<s1, s2>>, <<>>,
         [MkSt(heap) EXCEPT !.out = <<lean_string_eq_cold(heap, s1, s2)>>],
         FALSE)

ByteArrayHash ==
  fuel > 0 /\ \E a \in OfTag(Borrowable, "sarray") :
    Call("lean_byte_array_hash", <<a>>, <<>>,
         [MkSt(heap) EXCEPT !.out = lean_byte_array_hash(heap, a)], FALSE)

StringHash ==
  fuel > 0 /\ \E s \in OfTag(Borrowable, "string") :
    Call("lean_string_hash", <<s>>, <<>>,
         [MkSt(heap) EXCEPT !.out = lean_string_hash(heap, s)], FALSE)

\* the string is consumed and the result is an owned list
StringData(G) ==
  fuel > 0 /\ \E s \in OfTag(Owned, "string"), g \in G,
                 u \in {"abort", "corrupt"} :
    Call("lean_string_data", <<s, g>>, <<s>>,
         lean_string_data([MkSt(heap) EXCEPT !.ub = u], s, g), TRUE)

\* the paths compiled code takes when an invariant is broken: the default
\* value, the message, the array and the value are owned arguments, the
\* array of Array.back is borrowed
Panics(V) ==
  fuel > 0 /\
    \/ \E d \in V, msg \in OfTag(Owned, "string") :
         Call("lean_panic_fn", <<d, msg>>, <<d, msg>>,
              lean_panic_fn(MkSt(heap), d, msg), TRUE)
    \/ \E d \in V :
         Call("lean_array_get_panic", <<d>>, <<d>>,
              lean_array_get_panic(MkSt(heap), d), TRUE)
    \/ \E a \in OfTag(Owned, "array"), v \in V :
         Call("lean_array_set_panic", <<a, v>>, <<a, v>>,
              lean_array_set_panic(MkSt(heap), a, v), TRUE)
    \/ \E a \in OfTag(Borrowable, "array") :
         Call("l_Array_back___redArg", <<a>>, <<>>,
              l_Array_back___redArg(MkSt(heap), a), TRUE)
    \/ Call("lean_internal_panic_unreachable", <<>>, <<>>,
            lean_internal_panic_unreachable(MkSt(heap)), FALSE)

\* the array is an owned argument and comes back inside the result
SecureZero ==
  fuel > 0 /\ \E arr \in OfTag(Owned, "sarray") :
    Call("lean_secure_zero", <<arr>>, <<arr>>,
         lean_secure_zero(MkSt(heap), arr), TRUE)

\* f and the array are owned arguments; f takes one more argument
ArrayMap(SZ, I) ==
  fuel > 0 /\ \E f \in OfTag(Owned, "closure"), arr \in OfTag(Owned, "array"),
                 sz \in SZ, i \in I :
    /\ heap[f].m_arity = Len(heap[f].m_objs) + 1
    /\ Call("Array_mapMUnsafe_map", <<f, sz, i, arr>>, <<f, arr>>,
            l___private_Init_Data_Array_Basic_0__Array_mapMUnsafe_map___redArg(
              MkSt(heap), f, sz, i, arr),
            TRUE)

\* f is an owned argument and takes two more arguments; step, stop and i
\* are boxed naturals
RangeLoop(S, E, I, A) ==
  fuel > 0 /\ \E f \in OfTag(Owned, "closure"), s \in S, e \in E, i \in I,
                 acc \in A :
    /\ heap[f].m_arity = Len(heap[f].m_objs) + 2
    /\ Call("Std_Range_forIn_loop",
            <<f, lean_box(s), lean_box(e), lean_box(i), acc>>, <<f>>,
            l___private_Init_Data_Range_Basic_0__Std_Range_forIn_x27_loop___redArg(
              MkSt(heap), f, lean_box(s), lean_box(e), lean_box(i), acc),
            TRUE)

\* lean_nat_pow and lean_nat_shiftl borrow two boxed naturals
NatArith(A, B) ==
  fuel > 0 /\ \E op \in {"lean_nat_pow", "lean_nat_shiftl"}, a \in A, b \in B :
    Call(op, <<lean_box(a), lean_box(b)>>, <<>>,
         IF op = "lean_nat_pow"
           THEN lean_nat_pow(MkSt(heap), lean_box(a), lean_box(b))
         ELSE lean_nat_shiftl(MkSt(heap), lean_box(a), lean_box(b)),
         FALSE)

\* the buffers the host holds, and the byte ranges it can pass: its own
\* memory outside the malloc arena (pointer -1 here) or a buffer it holds
HostBufs == {b \in Addr : heap[b].m_tag = "malloc"}
HostIn(D) ==
  {[ptr |-> 0 - 1, bytes |-> d] : d \in D}
    \cup {[ptr |-> b, bytes |-> heap[b].m_data] : b \in HostBufs}

JsUnary(F, D) ==
  fuel > 0 /\ \E op \in F, data \in HostIn(D) :
    Call(op, <<data>>, <<>>,
         js_sha256(MkSt(heap), CoreOf[op], data.bytes), FALSE)

JsBinary(F, D) ==
  fuel > 0 /\ \E op \in F, key \in HostIn(D), msg \in HostIn(D) :
    Call(op, <<key, msg>>, <<>>,
         js_hmac_sha256(MkSt(heap), CoreOf[op], key.bytes, msg.bytes), FALSE)

JsFree ==
  fuel > 0 /\ \E ptr \in HostBufs \cup {NULL} :
    Call("js_free", <<ptr>>, <<>>, js_free(MkSt(heap), ptr), FALSE)

\* a stub that takes its arguments owned and returns an owned result
IoStubCall(Ops, V) ==
  fuel > 0 /\ \E op \in Ops :
    \E args \in [1..StubArity(op) -> V] :
      Call(op, args, args, IoStub(MkSt(heap), op, args), TRUE)

\* the task stubs borrow the task and return no object
TaskQuery ==
  fuel > 0 /\ \E op \in TaskOps :
    \E args \in [1..StubArity(op) -> Borrowable \cup {lean_box(0)}] :
      Call(op, args, <<>>, IoStub(MkSt(heap), op, args), FALSE)

IoAsTask ==
  fuel > 0 /\ \E c \in OfTag(Owned, "closure") :
    Call("lean_io_as_task", <<c>>, <<c>>, lean_io_as_task(MkSt(heap), c), TRUE)

AllocClosure ==
  fuel > 0 /\ \E f \in Funs :
    Call("lean_alloc_closure", f, <<>>,
         lean_alloc_closure(MkSt(heap), f[1], f[2], <<>>), TRUE)

\* over-application needs a function whose result is callable
ApplyM(V) ==
  fuel > 0 /\ \E f \in OfTag(Owned, "closure"), args \in NonEmptySeqs(V, MaxArgs) :
    /\ LET remaining == heap[f].m_arity - Len(heap[f].m_objs) IN
         Len(args) > remaining =>
           /\ heap[f].m_fun = "mk_closure"
           /\ Len(args) = remaining + 1
    /\ Call("lean_apply_m", <<f, args>>, <<f>> \o args,
            lean_apply_m(MkSt(heap), f, args), TRUE)

\* lean_alloc_closure(fun, arity, num_fixed) followed by lean_closure_set of
\* each fixed argument: none, or one value of V
AllocClosureOf(F, V) ==
  fuel > 0 /\ \E f \in F, fixed \in {<<>>} \cup {<<v>> : v \in V} :
    /\ Len(fixed) < f[2]
    /\ Call("lean_alloc_closure", <<f[1], f[2], fixed>>, fixed,
            lean_alloc_closure(MkSt(heap), f[1], f[2], fixed), TRUE)

\* the number of further arguments the result of a function can be applied to
Extra(fn) == IF fn = "mk_ctor" THEN 0 ELSE IF fn = "mk_closure" THEN 1 ELSE 2

\* lean_apply_m(f, n, args) with args one of the lists L; over-application
\* needs a function whose result is callable
ApplyArgs(L) ==
  fuel > 0 /\ \E f \in OfTag(Owned, "closure"), args \in L,
                 u \in {"abort", "corrupt"} :
    /\ Len(args) - (heap[f].m_arity - Len(heap[f].m_objs))
         <= Extra(heap[f].m_fun)
    /\ Call("lean_apply_m", <<f, args>>, <<f>> \o args,
            lean_apply_m([MkSt(heap) EXCEPT !.ub = u], f, args), TRUE)

StMkRef(V) ==
  fuel > 0 /\ \E a \in V :
    Call("lean_st_mk_ref", <<a>>, <<a>>, lean_st_mk_ref(MkSt(heap), a), TRUE)

StRefGet ==
  fuel > 0 /\ \E r \in OfTag(Borrowable, "ref") :
    Call("lean_st_ref_get", <<r>>, <<>>, lean_st_ref_get(MkSt(heap), r), TRUE)

StRefSet(V) ==
  fuel > 0 /\ \E r \in OfTag(Borrowable, "ref"), v \in V :
    Call("lean_st_ref_set", <<r, v>>, <<v>>,
         lean_st_ref_set(MkSt(heap), r, v), TRUE)

StRefSwap(V) ==
  fuel > 0 /\ \E r \in OfTag(Borrowable, "ref"), v \in V :
    Call("lean_st_ref_swap", <<r, v>>, <<v>>,
         lean_st_ref_swap(MkSt(heap), r, v), TRUE)

StRefTake ==
  fuel > 0 /\ \E r \in OfTag(Borrowable, "ref") :
    Call("lean_st_ref_take", <<r>>, <<>>, lean_st_ref_take(MkSt(heap), r), TRUE)

StRefReset ==
  fuel > 0 /\ \E r \in OfTag(Borrowable, "ref") :
    Call("lean_st_ref_reset", <<r>>, <<>>, lean_st_ref_reset(MkSt(heap), r), TRUE)

\* the values the program passes as owned arguments: a scalar or an object
\* it holds a reference to
Held == {a \in Addr : IsLive(heap, a) /\ roots[a] > 0}
OwnedVals == Held \cup {lean_box(0)}

Next ==
  \/ AllocCtor(OwnedVals)
  \/ Inc(Borrowable)
  \/ Dec
  \/ MarkPersistent
  \/ MkArray({2}, OwnedVals)
  \/ ArrayPush(OwnedVals)
  \/ ArrayExtract(FewRanges)
  \/ MkByteArray({<<65>>})
  \/ ByteArrayPush({65})
  \/ ByteArrayCopySlice(Borrowable, {<<0, 1, 1, FALSE>>})
  \/ ByteArrayExtract(FewRanges)
  \/ MkString({<<65>>})
  \/ StringPush({233})
  \/ StringAppend
  \/ StringExtract(FewRanges)
  \/ AllocClosure
  \/ ApplyM(OwnedVals)
  \/ StMkRef(OwnedVals)
  \/ StRefGet
  \/ StRefSet(OwnedVals)
  \/ StRefSwap(OwnedVals)
  \/ StRefTake

Spec == Init /\ [][Next]_vars

\* a program that only builds, shares and releases object graphs
InitRc == Start(MaxRcSteps)

NextRc ==
  \/ AllocCtor(OwnedVals)
  \/ MkArray({2}, OwnedVals)
  \/ StMkRef(OwnedVals)
  \/ MkByteArray({<<65>>})
  \/ MkString({<<65>>})
  \/ AllocClosure
  \/ ApplyM(OwnedVals)
  \/ Inc(Borrowable)
  \/ Dec

SpecRc == InitRc /\ [][NextRc]_vars

\* a program that builds, shares and grows containers, one kind of
\* container at a time
InitGrow == Start(MaxGrowSteps)

OnlyKind(t) ==
  \A a \in Addr \ {l_Array_empty, l_ByteArray_empty} :
    IsLive(heap, a) => heap[a].m_tag = t

GrowMkArray == OnlyKind("array") /\ MkArray({0, 4}, {lean_box(1)})
GrowArrayPush == OnlyKind("array") /\ ArrayPush(ScalarVals)
GrowArrayExtract == OnlyKind("array") /\ ArrayExtract({<<1, 3>>})
GrowMkByteArray == OnlyKind("sarray") /\ MkByteArray(ByteLits)
GrowByteArrayPush == OnlyKind("sarray") /\ ByteArrayPush(ByteVals)
GrowByteArrayCopySlice == OnlyKind("sarray") /\ ByteArrayCopySlice(Held, Slices)
GrowByteArrayExtract == OnlyKind("sarray") /\ ByteArrayExtract({<<1, 3>>})
GrowMkString == OnlyKind("string") /\ MkString(StrLits)
GrowStringPush == OnlyKind("string") /\ StringPush(CodePoints)
GrowStringAppend == OnlyKind("string") /\ StringAppend
GrowStringExtract == OnlyKind("string") /\ StringExtract({<<1, 3>>})
GrowInc == Inc(Held)

NextGrow ==
  \/ GrowMkArray
  \/ GrowArrayPush
  \/ GrowArrayExtract
  \/ GrowMkByteArray
  \/ GrowByteArrayPush
  \/ GrowByteArrayCopySlice
  \/ GrowByteArrayExtract
  \/ GrowMkString
  \/ GrowStringPush
  \/ GrowStringAppend
  \/ GrowStringExtract
  \/ GrowInc

SpecGrow == InitGrow /\ [][NextGrow]_vars

\* a program that builds arrays of objects, byte arrays and strings and
\* extracts sub-ranges of them
InitExt == Start(MaxExtSteps)

\* the (start, stop) pairs tried: inside the container, clamped at its end,
\* start at or after stop, both beyond the end
ExtRanges == {<<0, 2>>, <<1, 3>>, <<1, 9>>, <<3, 1>>, <<2, 2>>, <<9, 9>>}
\* "A", 0xC3 0xA9 (U+00E9), "B"
ExtStrLits == {<<65, 195, 169, 66>>}

NextExt ==
  \/ AllocCtor({lean_box(0)})
  \/ MkArray({0, 3}, OwnedVals)
  \/ ArrayPush(OwnedVals)
  \/ ArrayExtract(ExtRanges)
  \/ MkByteArray(ByteLits)
  \/ ByteArrayExtract(ExtRanges)
  \/ MkString(ExtStrLits)
  \/ StringExtract(ExtRanges)

SpecExt == InitExt /\ [][NextExt]_vars

\* a program that makes closures and applies them to too few, exactly enough
\* and too many arguments
InitApp == Start(MaxAppSteps)

\* a function of three arguments, a function of one argument whose result
\* takes two more one at a time, and a function of more arguments than
\* lean_call_with_args can pass
AppFuns ==
  {<<"mk_ctor", 3>>, <<"mk_closure2", 1>>, <<"mk_closure", MaxClosureArity + 1>>}

\* the argument lists: one, two and three arguments, one of them a held
\* object or a scalar, and long ones that leave one argument open, fill and
\* overfill the largest arity
AppArgLists ==
  UNION {{<<v>>, <<v, lean_box(1)>>, <<lean_box(1), v, lean_box(0)>>} :
           v \in Held \cup {lean_box(0)}}
    \cup {Rep(MaxClosureArity + k, lean_box(0)) : k \in 0..2}

NextApp ==
  \/ AllocCtor({lean_box(0)})
  \/ AllocClosureOf(AppFuns, Held)
  \/ ApplyArgs(AppArgLists)
  \/ Inc(Held)

SpecApp == InitApp /\ [][NextApp]_vars

\* a program that builds strings, cuts them at byte offsets and decodes them
\* at byte offsets before, at and past the terminator
InitStr == Start(MaxStrSteps)

\* the empty string and "A", 0xC3 0xA9 (U+00E9), "B"
StrTexts == {<<>>, <<65, 195, 169, 66>>}
\* code points at both ends of the one-, two-, three- and four-byte ranges
StrCodePoints == {0, 65, 127, 128, 233, 2047, 2048, 65535, 65536, 1114111}
\* byte ranges that start or stop inside the two-byte character, or not
StrRanges == {<<0, 1>>, <<1, 2>>, <<1, 3>>, <<2, 9>>}

NextStr ==
  \/ MkString(StrTexts)
  \/ StringPush(StrCodePoints)
  \/ StringAppend
  \/ StringExtract(StrRanges)
  \/ MkByteArray({<<195, 169, 65>>})
  \/ StringFromUtf8
  \/ StringGet(0..7, {0, 255})

SpecStr == InitStr /\ [][NextStr]_vars

\* a program that pushes code points of every encoded size onto the empty
\* string and steps forwards and backwards through the result
InitNav == Start(MaxNavSteps)

NextNav ==
  \/ MkString({<<>>})
  \/ StringPush({65, 233, 8364, 128512})
  \/ StringNext(0..8)
  \/ StringPrev(0..8, {0, 255})

SpecNav == InitNav /\ [][NextNav]_vars

\* a program that makes strings from C strings of well-formed and ill-formed
\* bytes and validates them
InitVal == Start(MaxValSteps)

\* well-formed: one-, two-, three- and four-byte sequences
\* ill-formed: a continuation byte at a sequence start, a lead byte with
\* too few continuation bytes before the end or before another byte, the
\* lead bytes 0xC0 and 0xC1, and bytes from 0xF5 on
ValLits ==
  {<<>>, <<65>>, <<194, 169>>, <<65, 194, 169>>, <<226, 130, 172>>,
   <<240, 159, 152, 128>>, <<244, 143, 191, 191>>, <<223, 191, 65>>}
  \cup {<<128>>, <<191>>, <<65, 128>>, <<194, 169, 191>>}
  \cup {<<194>>, <<65, 194>>, <<194, 65>>, <<223, 192>>, <<226, 130>>,
        <<226, 130, 65>>, <<226, 65, 172>>, <<240, 159, 152>>,
        <<240, 159, 152, 65>>, <<240, 159, 65, 128>>, <<240, 65, 152, 128>>}
  \cup {<<192, 128>>, <<193, 191>>, <<192>>, <<65, 193, 128>>}
  \cup {<<245, 128, 128, 128>>, <<245>>, <<248, 136, 128, 128>>, <<255>>,
        <<65, 245>>}

NextVal ==
  \/ MkString(ValLits)
  \/ StringValidate

SpecVal == InitVal /\ [][NextVal]_vars

\* a program that makes strings and byte buffers, and compares and hashes
\* them
InitTxt == Start(MaxTxtSteps)

\* fourteen bytes: 7 * 31^13 is above 2^64
TxtLong == [i \in 1..14 |-> 96 + i]
\* contents that differ in length, in the last byte or in nothing
TxtLits == {<<>>, <<65>>, <<65, 66>>, <<65, 67>>, <<194, 169>>, TxtLong}

NextTxt ==
  \/ MkString(TxtLits)
  \/ MkByteArray(TxtLits \cup {<<0>>})
  \/ ByteArrayBEq
  \/ StringEq
  \/ ByteArrayHash
  \/ StringHash

SpecTxt == InitTxt /\ [][NextTxt]_vars

\* a host that calls bridge operations on its own bytes and on buffers it
\* got back, and frees buffers
InitJs == Start(MaxJsSteps)

JsData == {<<>>, <<65>>, <<65, 66>>}

NextJs ==
  \/ JsUnary({"js_sha256", "js_bytes_to_hex", "js_huffman_encode"}, JsData)
  \/ JsBinary({"js_hmac_sha256"}, JsData)
  \/ JsFree

SpecJs == InitJs /\ [][NextJs]_vars

\* a program that calls the stubs of the capabilities the sandbox lacks, on
\* byte arrays it owns, shares or takes from the globals, and runs tasks
InitIo == Start(MaxIoSteps)

NextIo ==
  \/ MkByteArray({<<65>>})
  \/ Inc(Held)
  \/ AllocClosureOf({<<"mk_ctor", 1>>, <<"mk_ctor", 2>>}, Held)
  \/ IoStubCall(FsOps, Held \cup {l_ByteArray_empty})
  \/ IoStubCall(CryptoOps, Held \cup {l_ByteArray_empty})
  \/ IoStubCall(PromiseOps, Held \cup {lean_box(0)})
  \/ IoStubCall(RandomOps, {lean_box(0), lean_box(2)})
  \/ IoAsTask
  \/ TaskQuery

SpecIo == InitIo /\ [][NextIo]_vars

\* a program and a host that fill the heap: strings turned into lists,
\* bridge calls whose buffers are freed or kept
InitOom == Start(MaxOomSteps)

NextOom ==
  \/ MkString({<<>>, <<65>>, <<195, 169>>})
  \/ StringData({0})
  \/ JsUnary({"js_sha256", "js_huffman_encode"}, {<<>>, <<65>>})
  \/ JsFree

SpecOom == InitOom /\ [][NextOom]_vars

\* a program that computes powers and shifts of small naturals: around the
\* square root of the word size, around LEAN_MAX_SMALL_NAT, shifts around
\* the number of bits of size_t
InitNat == Start(MaxNatSteps)

NatBases ==
  {0, 1, 2, 3, 7, 255, 46340, 46341, 65535, 65536, 65537, 131072,
   1073741824, LEAN_MAX_SMALL_NAT}
NatExps == {0, 1, 2, 3, 4, 15, 16, 30, 31, 32, 33}

NextNat == NatArith(NatBases, NatExps)

SpecNat == InitNat /\ [][NextNat]_vars

\* a program that builds arrays and messages and runs into broken
\* invariants
InitPanic == Start(MaxPanicSteps)

NextPanic ==
  \/ MkArray({0, 1}, OwnedVals)
  \/ MkString({<<65>>})
  \/ Inc(Held)
  \/ Panics(OwnedVals)

SpecPanic == InitPanic /\ [][NextPanic]_vars

\* a program that has made a byte array and a cell holding it, has taken
\* the cell out of the result of lean_st_mk_ref (retain the value, release
\* the result), and now reads and replaces the value of the cell
RefStart ==
  LET s1 == mk_byte_array(init_wasm_globals, <<65>>)
      s2 == lean_st_mk_ref(s1, s1.ret)
      r == s2.heap[s2.ret].m_objs[1]
  IN [lean_dec(lean_inc(s2, r), s2.ret, 0) EXCEPT !.ret = r]

InitRef ==
  /\ heap = RefStart.heap
  /\ roots = [a \in Addr |-> IF a = RefStart.ret THEN 1 ELSE 0]
  /\ fault = FALSE
  /\ last = NoCall
  /\ prev = NoPrev
  /\ pushed = [o \in Addr |-> Unknown]
  /\ applied = [o \in Addr |-> Unknown]
  /\ pre = RefStart.heap
  /\ fuel = MaxRefSteps

NextRef ==
  \/ MkByteArray({<<66>>})
  \/ Inc(Held)
  \/ Dec
  \/ StMkRef(OwnedVals)
  \/ StRefGet
  \/ StRefSet(OwnedVals)
  \/ StRefSwap(OwnedVals)
  \/ StRefTake
  \/ StRefReset

SpecRef == InitRef /\ [][NextRef]_vars

\* a program that makes byte arrays, shares them and copies slices between
\* them
InitSlice == Start(MaxSliceSteps)

\* the (srcOff, dstOff, len, exact) tuples tried: inside both arrays, over
\* the end of dst, offsets and a length beyond the end
CopySlices ==
  {<<1, 1, 1, TRUE>>, <<1, 2, 2, FALSE>>, <<9, 0, 2, FALSE>>,
   <<0, 9, 2, TRUE>>, <<1, 0, 4, FALSE>>}

NextSlice ==
  \/ MkByteArray({<<65, 66>>, <<67, 68, 69>>})
  \/ Inc(Held)
  \/ ByteArrayCopySlice(Borrowable, CopySlices)

SpecSlice == InitSlice /\ [][NextSlice]_vars

\* a program that makes byte arrays holding secrets, shares some of them
\* and wipes them
InitZero == Start(MaxZeroSteps)

NextZero ==
  \/ MkByteArray({<<>>, <<65>>, <<65, 66>>, <<0, 7, 0>>})
  \/ Inc(Held)
  \/ Dec
  \/ SecureZero

SpecZero == InitZero /\ [][NextZero]_vars

\* a program that makes functions of one argument and arrays of held
\* objects and scalars, shares them and maps the functions over them
InitMap == Start(MaxMapSteps)

NextMap ==
  \/ AllocClosureOf({<<"id", 1>>, <<"drop", 1>>}, {})
  \/ Inc(Held)
  \/ MkArray({1, 2}, OwnedVals)
  \/ ArrayMap({1, 2, 9}, {0, 1})

SpecMap == InitMap /\ [][NextMap]_vars

\* a program that makes strings from C strings holding complete and cut-off
\* byte sequences, decodes at and steps back from offsets inside and beyond
\* them, and turns them into lists
InitDec == Start(MaxDecSteps)

DecLits == {<<>>, <<65>>, <<195, 169>>, <<65, 195>>, <<226>>,
            <<226, 130, 172>>, <<65, 240, 159>>}

DecGarbage == {0, 128}

NextDec ==
  \/ MkString(DecLits)
  \/ StringGet({0, 1, 2, 3, 9}, DecGarbage)
  \/ StringPrev({0, 1, 2, 3, 4, 9}, DecGarbage)
  \/ StringData(DecGarbage)

SpecDec == InitDec /\ [][NextDec]_vars

\* a program that makes loop bodies that stop from index 0, 1, 2 or 9 on
\* and runs them over ranges with step 0, 1 and 2
InitLoop == Start(MaxLoopSteps)

NextLoop ==
  \/ AllocClosureOf({<<"until", 3>>}, {lean_box(k) : k \in {0, 1, 2, 9}})
  \/ Inc(Held)
  \/ RangeLoop({0, 1, 2}, {0, 1, 3, 4}, {0, 1, 2}, {lean_box(0), lean_box(5)})

SpecLoop == InitLoop /\ [][NextLoop]_vars

(* ============================== properties ============================= *)
\* the references an object owns, by variant: constructor fields, closure
\* fixed arguments, array elements, the value of a ref cell; byte arrays and
\* strings own nothing
OwnedRefs(obj) ==
  CASE obj.m_tag = "ctor" -> obj.m_objs
    [] obj.m_tag = "closure" -> obj.m_objs
    [] obj.m_tag = "ref" -> obj.m_objs
    [] obj.m_tag = "array" -> obj.m_data
    [] OTHER -> <<>>

\* number of references to o held in fields of the live objects 1..k of h
RECURSIVE ParentRefs(_, _, _)
ParentRefs(h, o, k) ==
  IF k = 0 THEN 0
  ELSE (IF IsLive(h, k) THEN Occ(OwnedRefs(h[k]), o) ELSE 0)
       + ParentRefs(h, o, k - 1)

\* number of references to o held in fields of the objects of set F in h
RECURSIVE RefsFrom(_, _, _)
RefsFrom(h, o, F) ==
  IF F = {} THEN 0
  ELSE LET p == CHOOSE x \in F : TRUE IN
       Occ(OwnedRefs(h[p]), o) + RefsFrom(h, o, F \ {p})

NoDup(s) == \A i, j \in 1..Len(s) : i # j => s[i] # s[j]
Range(s) == {s[i] : i \in 1..Len(s)}

\* C1: in every reachable state every live non-immortal object has a
\* refcount >= 1 equal to the number of owning references to it (roots plus
\* fields of live parents), no live object and no root refers to a freed
\* object, freed memory is never touched and nothing is freed twice.
C1_RefcountSound ==
  /\ ~fault
  /\ NoDup(last.freed)
  /\ \A a \in Addr : roots[a] > 0 => IsLive(heap, a)
  /\ \A o \in Addr :
       IsLive(heap, o) =>
         /\ heap[o].m_rc # 0 =>
              /\ heap[o].m_rc >= 1
              /\ heap[o].m_rc = roots[o] + ParentRefs(heap, o, MaxObjs)
         /\ \A i \in 1..Len(OwnedRefs(heap[o])) :
              LET c == OwnedRefs(heap[o])[i] IN
              lean_is_scalar(c) \/ IsLive(heap, c)

\* a call has freed an object while another object is still owned by a parent
C1_Witness ==
  /\ last.freed # <<>>
  /\ \E o \in Addr :
       IsLive(heap, o) /\ heap[o].m_rc >= 2 /\ ParentRefs(heap, o, MaxObjs) >= 1

\* the objects the last call freed
Freed == {x \in Addr : IsLive(pre, x) /\ ~IsLive(heap, x)}

\* C2: lean_dec of an object with refcount 1 releases each owned child once
\* (so a child loses one count per field that held it and is freed, in turn,
\* exactly when its count reaches zero) and then frees the object; byte
\* arrays and strings release nothing else; lean_dec of an object with
\* refcount > 1 lowers the count by one and frees nothing.
C2_Release ==
  last.op = "lean_dec" =>
    LET o == last.args[1] IN
    IF pre[o].m_rc > 1
      THEN heap = [pre EXCEPT ![o].m_rc = @ - 1] /\ last.freed = <<>>
    ELSE IF pre[o].m_rc = 0 THEN heap = pre /\ last.freed = <<>>
    ELSE /\ o \in Freed
         /\ last.freed[Len(last.freed)] = o
         /\ NoDup(last.freed)
         /\ Range(last.freed) = Freed
         /\ pre[o].m_tag \in {"sarray", "string"} => Freed = {o}
         /\ \A c \in Addr :
              IF ~IsLive(pre, c) THEN heap[c] = pre[c]
              ELSE IF c \in Freed
                THEN c = o \/ pre[c].m_rc = RefsFrom(pre, c, Freed)
              ELSE IF pre[c].m_rc = 0 THEN heap[c] = pre[c]
              ELSE /\ pre[c].m_rc - RefsFrom(pre, c, Freed) >= 1
                   /\ heap[c] = [pre[c] EXCEPT
                                   !.m_rc = @ - RefsFrom(pre, c, Freed)]

\* a release that freed a parent and a child and lowered a surviving count
C2_Witness ==
  /\ last.op = "lean_dec"
  /\ Cardinality(Freed) >= 2
  /\ pre[last.args[1]].m_tag \in {"ctor", "array", "closure"}

\* C3: lean_inc followed by lean_dec of the same live non-immortal object
\* leaves its refcount as it was, does not free it and leaves the refcount
\* of each of its children as it was.
C3_Step ==
  (/\ fuel' # fuel
   /\ last.op = "lean_inc"
   /\ last'.op = "lean_dec"
   /\ last'.args = last.args
   /\ pre[last.args[1]].m_rc >= 1) =>
    LET o == last.args[1] IN
    /\ IsLive(heap', o)
    /\ heap'[o].m_rc = pre[o].m_rc
    /\ last'.freed = <<>>
    /\ \A i \in 1..Len(OwnedRefs(pre[o])) :
         LET c == OwnedRefs(pre[o])[i] IN
         lean_is_scalar(c) \/ heap'[c] = pre[c]

\* C3 as a property of every pair of consecutive calls: lean_inc then
\* lean_dec of the same object restores its refcount and frees nothing
C3_RetainRelease == [][C3_Step]_vars

\* lean_inc then lean_dec were applied to an object that owns another object
C3_Witness ==
  /\ prev.op = "lean_inc"
  /\ last.op = "lean_dec"
  /\ last.args = prev.args
  /\ heap[last.args[1]].m_rc >= 1
  /\ \E i \in 1..Len(OwnedRefs(heap[last.args[1]])) :
       ~lean_is_scalar(OwnedRefs(heap[last.args[1]])[i])

\* C4: during a release the number of simultaneously active
\* lean_dec_ref_cold activations stays within a constant, whatever the depth
\* of the released chain.
C4_ReleaseStackBounded == last.depth <= ReleaseStackBound

\* C5: an immortal object (m_rc = 0) is never freed and its refcount never
\* changes; l_Array_empty and l_ByteArray_empty exist from the start, are
\* immortal and stay allocated with size 0.
C5_Immortal ==
  /\ \A o \in Addr :
       (IsLive(pre, o) /\ pre[o].m_rc = 0) =>
         (IsLive(heap, o) /\ heap[o].m_rc = 0)
  /\ heap[l_Array_empty].m_tag = "array"
  /\ heap[l_Array_empty].m_rc = 0
  /\ heap[l_Array_empty].m_data = <<>>
  /\ heap[l_ByteArray_empty].m_tag = "sarray"
  /\ heap[l_ByteArray_empty].m_rc = 0
  /\ heap[l_ByteArray_empty].m_data = <<>>

\* both l_Array_empty and l_ByteArray_empty were pushed to
C5_Witness ==
  /\ last.op = "lean_byte_array_push"
  /\ last.args[1] = l_ByteArray_empty
  /\ heap[last.ret].m_data # <<>>
  /\ \E o \in Addr :
       /\ heap[o].m_tag = "array"
       /\ heap[o].m_data # <<>>
       /\ pushed[o].ok

(* ------------------------- growable containers ------------------------- *)
ArrayMinCap == 4
ByteArrayMinCap == 8
StringMinCap == 16

PushOps == {"lean_array_push", "lean_byte_array_push", "lean_string_push"}
AppendOps == PushOps \cup {"lean_string_append"}
CowOps == AppendOps \cup {"lean_byte_array_copy_slice"}

\* the container the last call consumed
Target ==
  IF last.op = "lean_byte_array_copy_slice" THEN last.args[3] ELSE last.args[1]

\* the bytes of a string object without its terminator
StrBytes(obj) == SubSeq(obj.m_data, 1, Len(obj.m_data) - 1)

\* what the last push/append adds to the contents of its container
Added ==
  CASE last.op = "lean_string_push" -> Utf8Encode(last.args[2])
    [] last.op = "lean_string_append" -> StrBytes(pre[last.args[2]])
    [] OTHER -> <<last.args[2]>>

\* the contents of a container with its terminator, if any, removed
Contents(obj) == IF obj.m_tag = "string" THEN StrBytes(obj) ELSE obj.m_data

\* the size the container of the last push/append must have afterwards
NewSize == Len(pre[Target].m_data) + Len(Added)

\* the last call consumed the reference to object c of the previous heap
Released(c) ==
  IF pre[c].m_rc = 0 THEN heap[c] = pre[c]
  ELSE IF pre[c].m_rc > 1 THEN heap[c] = [pre[c] EXCEPT !.m_rc = @ - 1]
  ELSE ~IsLive(heap, c) /\ last.freed = <<c>>

\* C6: copy-on-write. A push, append or copy-slice whose container has a
\* refcount other than 1 returns a different object and leaves the
\* original's size, capacity and contents unchanged; the original's
\* refcount drops by one, or stays if it is immortal.
C6_CopyOnWrite ==
  (last.op \in CowOps /\ pre[Target].m_rc # 1) =>
    /\ last.ret # Target
    /\ ~IsLive(pre, last.ret)
    /\ IsLive(heap, last.ret)
    /\ IsLive(heap, Target)
    /\ heap[Target].m_data = pre[Target].m_data
    /\ heap[Target].m_capacity = pre[Target].m_capacity
    /\ heap[Target].m_length = pre[Target].m_length
    /\ heap[Target].m_rc =
         (IF pre[Target].m_rc = 0 THEN 0 ELSE pre[Target].m_rc - 1)

\* a shared, non-empty container was pushed to
C6_Witness ==
  /\ last.op \in CowOps
  /\ pre[Target].m_rc >= 2
  /\ pre[Target].m_data # <<>>
  /\ heap[last.ret].m_data # pre[Target].m_data

\* the last push/append could be done in place
FitsInPlace == pre[Target].m_rc = 1 /\ NewSize <= pre[Target].m_capacity

\* C7: a push/append on a container with refcount 1 and room for the new
\* size returns the same object without allocating, stores the new
\* element(s) after the previous contents and leaves the capacity alone.
C7_InPlace ==
  (last.op \in AppendOps /\ FitsInPlace) =>
    /\ last.ret = Target
    /\ last.allocs = <<>>
    /\ last.freed = <<>>
    /\ Len(heap[Target].m_data) = NewSize
    /\ Contents(heap[Target]) = Contents(pre[Target]) \o Added
    /\ heap[Target].m_capacity = pre[Target].m_capacity
    /\ heap[Target].m_rc = 1
    /\ \A x \in Addr \ {Target} : heap[x] = pre[x]

\* an exclusive container with room took a second, different element
C7_Witness ==
  /\ last.op \in AppendOps
  /\ FitsInPlace
  /\ Len(Contents(pre[Target])) >= 1
  /\ Added # <<>>
  /\ Added[1] # Contents(pre[Target])[1]

\* C8: every array, byte array and string has m_size <= m_capacity.
C8_SizeWithinCapacity ==
  \A o \in Addr :
    heap[o].m_tag \in {"array", "sarray", "string"} =>
      Len(heap[o].m_data) <= heap[o].m_capacity

\* a container was filled up to its capacity by a push
C8_Witness ==
  /\ last.op \in PushOps
  /\ Len(heap[last.ret].m_data) = heap[last.ret].m_capacity
  /\ heap[last.ret].m_capacity >= ArrayMinCap

\* the minimum starting capacity of the kind the last push grew
KindMinCap ==
  CASE last.op = "lean_array_push" -> ArrayMinCap
    [] last.op = "lean_byte_array_push" -> ByteArrayMinCap
    [] OTHER -> StringMinCap

\* the capacity the code gives the object a reallocating push returns
GrownCapacity ==
  LET sz == Len(pre[Target].m_data) IN
  CASE last.op = "lean_array_push" ->
         IF sz < ArrayMinCap THEN ArrayMinCap ELSE 2 * sz
    [] last.op = "lean_byte_array_push" ->
         IF sz < 4 THEN ByteArrayMinCap ELSE 2 * sz
    [] OTHER -> IF NewSize < StringMinCap THEN StringMinCap ELSE 2 * NewSize

\* C9 as stated: when a push cannot be done in place the new object's
\* capacity is twice the new required size, or the minimum starting
\* capacity of its kind.
C9_Original ==
  (last.op \in PushOps /\ ~FitsInPlace) =>
    /\ heap[last.ret].m_capacity >= KindMinCap
    /\ \/ heap[last.ret].m_capacity = 2 * NewSize
       \/ heap[last.ret].m_capacity = KindMinCap

\* C9 amended: when a push cannot be done in place the new object's capacity
\* is, for an array of old size sz, 4 if sz < 4 and else 2*sz; for a byte
\* array, 8 if sz < 4 and else 2*sz; for a string of new byte size n
\* (terminator included), 16 if n < 16 and else 2*n; it is never less than
\* the new size; the old contents are copied in order before the new
\* element and the old reference is released.
C9_Growth ==
  (last.op \in PushOps /\ ~FitsInPlace) =>
    /\ last.ret # Target
    /\ ~IsLive(pre, last.ret)
    /\ heap[last.ret].m_tag = pre[Target].m_tag
    /\ heap[last.ret].m_rc = 1
    /\ heap[last.ret].m_capacity = GrownCapacity
    /\ heap[last.ret].m_capacity >= NewSize
    /\ Contents(heap[last.ret]) = Contents(pre[Target]) \o Added
    /\ Len(heap[last.ret].m_data) = NewSize
    /\ Released(Target)

\* an exclusive full container of at least 4 elements was reallocated
C9_Witness ==
  /\ last.op \in PushOps
  /\ pre[Target].m_rc = 1
  /\ Len(pre[Target].m_data) >= 4
  /\ last.ret # Target
  /\ ~IsLive(heap, Target)

ExtractOps ==
  {"l_Array_extract___redArg", "l_ByteArray_extract", "lean_string_utf8_extract"}

Min(a, b) == IF a <= b THEN a ELSE b

\* the source of the last extract, its length and the clamped bounds
ExtSrc == last.args[1]
ExtLen == Len(Contents(pre[ExtSrc]))
ExtLo == Min(last.args[2], ExtLen)
ExtHi == Min(last.args[3], ExtLen)

\* the elements or bytes ExtLo .. ExtHi-1 (counted from 0) of the source
ExtWanted ==
  [i \in 1..(IF ExtLo < ExtHi THEN ExtHi - ExtLo ELSE 0) |->
     Contents(pre[ExtSrc])[ExtLo + i]]

\* C11: extract(start, stop) on an array, byte array or string of length n
\* clamps both bounds to [0, n]; when the clamped start is below the clamped
\* stop the result is a freshly allocated container of the same kind holding
\* exactly the elements min(start,n) .. min(stop,n)-1 in order, otherwise a
\* container of length 0; the source is unchanged and, for an array of
\* objects, each copied element gains exactly one count per copy.
C11_Extract ==
  last.op \in ExtractOps =>
    LET r == last.ret IN
    /\ IsLive(heap, r)
    /\ heap[r].m_tag = pre[ExtSrc].m_tag
    /\ Contents(heap[r]) = ExtWanted
    /\ Len(Contents(heap[r])) = (IF ExtLo < ExtHi THEN ExtHi - ExtLo ELSE 0)
    /\ heap[r].m_tag = "string" => heap[r].m_data[Len(heap[r].m_data)] = 0
    /\ ExtLo < ExtHi =>
         /\ ~IsLive(pre, r)
         /\ last.allocs = <<r>>
         /\ heap[r].m_rc = 1
    /\ last.freed = <<>>
    /\ heap[ExtSrc] = pre[ExtSrc]
    /\ \A x \in Addr \ {r} :
         IF pre[ExtSrc].m_tag = "array" /\ IsLive(pre, x) /\ pre[x].m_rc > 0
           THEN heap[x] = [pre[x] EXCEPT !.m_rc = @ + Occ(ExtWanted, x)]
         ELSE heap[x] = pre[x]

\* a clamped, non-empty range of an array holding an object was extracted
C11_Witness ==
  /\ last.op = "l_Array_extract___redArg"
  /\ last.args[3] > ExtLen
  /\ ExtLo < ExtHi
  /\ \E i \in 1..Len(ExtWanted) :
       /\ ~lean_is_scalar(ExtWanted[i])
       /\ heap[ExtWanted[i]].m_rc = pre[ExtWanted[i]].m_rc + Len(ExtWanted)

\* C12: when the clamped start is not below the clamped stop, extract on an
\* array returns l_Array_empty and extract on a byte array returns
\* l_ByteArray_empty, and allocates nothing.
C12_CanonicalEmpty ==
  (/\ last.op \in {"l_Array_extract___redArg", "l_ByteArray_extract"}
   /\ ExtLo >= ExtHi) =>
    /\ last.ret = (IF last.op = "l_Array_extract___redArg"
                     THEN l_Array_empty ELSE l_ByteArray_empty)
    /\ last.allocs = <<>>

(* ------------------------- closure application ------------------------- *)
\* the closure the last lean_apply_m was given, as it was before the call,
\* the arguments supplied and the number of arguments it still expected
AppF == last.args[1]
AppArgs == last.args[2]
AppC == pre[AppF]
AppRemaining == AppC.m_arity - Len(AppC.m_objs)

\* the last call consumed one reference to the closure it applied
AppConsumed ==
  IF AppC.m_rc > 1
    THEN heap[AppF] = [AppC EXCEPT !.m_rc = @ - 1] /\ last.freed = <<>>
  ELSE last.freed = <<AppF>>

\* every object x other than the closure and the result has the count it had,
\* plus one for each fixed argument slot holding it when the closure lives on
AppRetained(r) ==
  \A x \in Addr \ {AppF, r} :
    IF IsLive(pre, x) /\ pre[x].m_rc > 0 /\ AppC.m_rc > 1
      THEN heap[x] = [pre[x] EXCEPT !.m_rc = @ + Occ(AppC.m_objs, x)]
    ELSE heap[x] = pre[x]

\* C13: lean_apply_m with fewer arguments than the closure expects returns
\* a new closure with the same function and arity whose fixed arguments are
\* the old fixed arguments followed by the supplied ones, calls no function,
\* consumes one reference to the closure and leaves every old fixed argument
\* live with a reference owned by the new closure.
C13_UnderApplication ==
  (last.op = "lean_apply_m" /\ Len(AppArgs) < AppRemaining) =>
    LET r == last.ret IN
    /\ last.panic = ""
    /\ ~IsLive(pre, r)
    /\ last.allocs = <<r>>
    /\ heap[r] = [AppC EXCEPT !.m_rc = 1, !.m_objs = AppC.m_objs \o AppArgs]
    /\ Len(heap[r].m_objs) = Len(AppC.m_objs) + Len(AppArgs)
    /\ Len(heap[r].m_objs) < heap[r].m_arity
    /\ last.calls = <<>>
    /\ AppConsumed
    /\ AppRetained(r)
    /\ \A i \in 1..Len(AppC.m_objs) :
         LET x == AppC.m_objs[i] IN
         lean_is_scalar(x) \/
           (IsLive(heap, x) /\ heap[x].m_rc >= Occ(heap[r].m_objs, x))

\* a closure holding an object as fixed argument was given one more argument,
\* once as the only reference to it and so freed
C13_Witness ==
  /\ last.op = "lean_apply_m"
  /\ Len(AppArgs) < AppRemaining
  /\ AppC.m_rc = 1
  /\ \E i \in 1..Len(AppC.m_objs) : ~lean_is_scalar(AppC.m_objs[i])
  /\ heap[last.ret].m_objs[1] # heap[last.ret].m_objs[2]

\* C14: lean_apply_m with exactly the arguments the closure expects (arity
\* at most 16) calls the function once with the fixed arguments followed by
\* the supplied ones, returns the result of that call and consumes one
\* reference to the closure; each fixed argument is retained once for the
\* call.
C14_ExactApplication ==
  (/\ last.op = "lean_apply_m"
   /\ Len(AppArgs) = AppRemaining
   /\ AppC.m_arity <= MaxClosureArity) =>
    LET r == last.ret IN
    /\ last.panic = ""
    /\ last.calls = <<[fn |-> AppC.m_fun, args |-> AppC.m_objs \o AppArgs]>>
    /\ last.allocs = <<r>>
    /\ ~IsLive(pre, r)
    /\ heap[r].m_objs = AppC.m_objs \o AppArgs
    /\ heap[r].m_tag = (IF AppC.m_fun = "mk_ctor" THEN "ctor" ELSE "closure")
    /\ heap[r].m_rc = 1
    /\ AppConsumed
    /\ AppRetained(r)

\* a shared closure holding an object was applied to its last argument
C14_Witness ==
  /\ last.op = "lean_apply_m"
  /\ Len(AppArgs) = AppRemaining
  /\ AppC.m_rc > 1
  /\ \E i \in 1..Len(AppC.m_objs) :
       /\ ~lean_is_scalar(AppC.m_objs[i])
       /\ heap[AppC.m_objs[i]].m_rc = pre[AppC.m_objs[i]].m_rc + 1
  /\ Len(last.calls) = 1
  /\ heap[last.ret].m_tag = "ctor"

\* C15: lean_apply_m with more arguments than the closure expects (arity at
\* most 16) first calls the function with the fixed arguments followed by
\* the first `remaining` supplied ones, then applies the result to the
\* leftover arguments in order and returns the final result; each supplied
\* argument is newly passed to exactly one call and the chain ends after at
\* most n calls.
C15_OverApplication ==
  (/\ last.op = "lean_apply_m"
   /\ Len(AppArgs) > AppRemaining
   /\ AppC.m_arity <= MaxClosureArity) =>
    LET cs == last.calls
        n == Len(AppArgs)
    IN /\ last.panic = ""
       /\ Len(cs) >= 2
       /\ Len(cs) <= n
       /\ cs[1] = [fn |-> AppC.m_fun,
                   args |-> AppC.m_objs \o SubSeq(AppArgs, 1, AppRemaining)]
       /\ \A k \in 2..Len(cs) :
            cs[k].args = cs[k - 1].args \o <<AppArgs[AppRemaining + k - 1]>>
       /\ Len(cs) = 1 + (n - AppRemaining)
       /\ cs[Len(cs)].args = AppC.m_objs \o AppArgs
       /\ last.ret = last.allocs[Len(last.allocs)]
       /\ IsLive(heap, last.ret)
       /\ heap[last.ret].m_objs = cs[Len(cs)].args
       /\ Len(last.allocs) = Len(cs)
       /\ \A k \in 1..(Len(last.allocs) - 1) : ~IsLive(heap, last.allocs[k])
              \/ last.allocs[k] = last.ret

\* a closure expecting one argument was applied to three, two of them left
\* over, and the chain of three calls ended in a constructor object
C15_Witness ==
  /\ last.op = "lean_apply_m"
  /\ AppRemaining = 1
  /\ Len(AppArgs) = 3
  /\ Len(last.calls) = 3
  /\ heap[last.ret].m_tag = "ctor"
  /\ heap[last.ret].m_objs[1] # heap[last.ret].m_objs[3]

\* C16: for a closure of arity k allocated without fixed arguments, applying
\* x1..xk in consecutive non-empty groups, one lean_apply_m per group, calls
\* the function once, in the application that supplies the last group, with
\* (x1..xk) in order, and gives the result the single application of the
\* closure to (x1..xk) gives.
C16_Associativity ==
  (/\ last.op = "lean_apply_m"
   /\ AppC.m_fun = "mk_ctor"
   /\ AppC.m_arity <= MaxClosureArity
   /\ Len(AppArgs) <= AppRemaining
   /\ applied[last.ret].ok) =>
    LET xs == applied[last.ret].vals
        r == heap[last.ret]
        h0 == [pre EXCEPT ![AppF].m_objs = <<>>, ![AppF].m_rc = 1]
        single == lean_apply_m(MkSt(h0), AppF, xs)
    IN IF Len(xs) < AppC.m_arity
         THEN /\ last.calls = <<>>
              /\ r.m_tag = "closure"
              /\ r.m_objs = xs
       ELSE /\ Len(xs) = AppC.m_arity
            /\ last.calls = <<[fn |-> "mk_ctor", args |-> xs]>>
            /\ single.calls = last.calls
            /\ ~single.fault
            /\ r.m_tag = single.heap[single.ret].m_tag
            /\ r.m_objs = single.heap[single.ret].m_objs
            /\ r.m_rc = single.heap[single.ret].m_rc

\* apply(apply(c, [x]), [y, z]) for a closure c of arity 3 was completed
C16_Witness ==
  /\ last.op = "lean_apply_m"
  /\ AppC.m_fun = "mk_ctor"
  /\ Len(AppC.m_objs) = 1
  /\ Len(AppArgs) = 2
  /\ applied[last.ret] = Known(AppC.m_objs \o AppArgs)
  /\ heap[last.ret].m_tag = "ctor"
  /\ AppArgs[1] # AppArgs[2]

\* C17: lean_apply_m on a closure of arity above 16 aborts with a
\* diagnostic whether it is given too few, exactly enough or too many
\* arguments: it allocates no closure, calls no function, and writes no
\* slot of all_args at an index of 16 or more.
C17_ArityExceeded ==
  (last.op = "lean_apply_m" /\ AppC.m_arity > MaxClosureArity) =>
    /\ last.panic # ""
    /\ last.allocs = <<>>
    /\ last.calls = <<>>
    /\ last.top < MaxClosureArity
    /\ ~fault

(* ------------------------------- strings ------------------------------- *)
\* the number of bytes of the UTF-8 encoding of code point c
EncodedSize(c) ==
  IF c < 128 THEN 1 ELSE IF c < 2048 THEN 2 ELSE IF c < 65536 THEN 3 ELSE 4

IsCont(b) == b >= 128 /\ b < 192

\* bs is the UTF-8 encoding of code point c: a lead byte announcing Len(bs)
\* bytes, continuation bytes 10xxxxxx, and the payload bits spelling c
IsUtf8Of(bs, c) ==
  CASE Len(bs) = 1 -> bs[1] < 128 /\ c = bs[1]
    [] Len(bs) = 2 ->
         /\ bs[1] >= 192 /\ bs[1] < 224 /\ IsCont(bs[2])
         /\ c = (bs[1] - 192) * 64 + (bs[2] - 128)
    [] Len(bs) = 3 ->
         /\ bs[1] >= 224 /\ bs[1] < 240 /\ IsCont(bs[2]) /\ IsCont(bs[3])
         /\ c = (bs[1] - 224) * 4096 + (bs[2] - 128) * 64 + (bs[3] - 128)
    [] Len(bs) = 4 ->
         /\ bs[1] >= 240 /\ bs[1] < 248
         /\ IsCont(bs[2]) /\ IsCont(bs[3]) /\ IsCont(bs[4])
         /\ c = (bs[1] - 240) * 262144 + (bs[2] - 128) * 4096
                  + (bs[3] - 128) * 64 + (bs[4] - 128)
    [] OTHER -> FALSE

\* C18: lean_string_push(s, c) appends the UTF-8 encoding of c, of 1 byte
\* for c < 0x80, 2 for c < 0x800, 3 for c < 0x10000 and 4 otherwise (the
\* size l_Char_utf8Size gives), directly before the terminator: the byte
\* size grows by that number, the previous content bytes stay, the last
\* byte is 0 and m_length grows by 1, in place and when reallocating.
C18_StringPush ==
  last.op = "lean_string_push" =>
    LET o == pre[last.args[1]]
        c == last.args[2]
        r == heap[last.ret]
        old == Len(o.m_data)
        k == EncodedSize(c)
    IN /\ k = lean_unbox(l_Char_utf8Size(c))
       /\ r.m_tag = "string"
       /\ Len(r.m_data) = old + k
       /\ SubSeq(r.m_data, 1, old - 1) = StrBytes(o)
       /\ IsUtf8Of(SubSeq(r.m_data, old, old + k - 1), c)
       /\ r.m_data[old + k] = 0
       /\ r.m_length = o.m_length + 1
       /\ (last.ret = last.args[1]) =
            (o.m_rc = 1 /\ old + k <= o.m_capacity)

\* a four-byte character was pushed in place after a character pushed by
\* reallocating
C18_Witness ==
  /\ last.op = "lean_string_push"
  /\ last.ret = last.args[1]
  /\ last.args[2] >= 65536
  /\ pushed[last.ret].ok
  /\ Len(pushed[last.ret].vals) = 2
  /\ pushed[last.ret].vals[1] >= 128

\* the number of complete UTF-8 sequences in bs from position p on: a lead
\* byte followed by all the continuation bytes it announces
RECURSIVE Utf8Count(_, _)
Utf8Count(bs, p) ==
  IF p > Len(bs) THEN 0
  ELSE LET b == bs[p]
           k == IF b < 128 THEN 1
                ELSE IF b >= 192 /\ b < 224 THEN 2
                ELSE IF b >= 224 /\ b < 240 THEN 3
                ELSE IF b >= 240 /\ b < 248 THEN 4
                ELSE 0
           complete == /\ k > 0
                       /\ p + k - 1 <= Len(bs)
                       /\ \A j \in 1..(k - 1) : IsCont(bs[p + j])
       IN IF complete THEN 1 + Utf8Count(bs, p + k) ELSE Utf8Count(bs, p + 1)

\* C19: every string made by lean_mk_string, lean_string_push,
\* lean_string_append, lean_string_utf8_extract at any byte offsets and
\* lean_string_from_utf8_unchecked has the byte 0 at index m_size-1 and an
\* m_length equal to the number of complete UTF-8 sequences in its first
\* m_size-1 bytes.
C19_StringInvariant ==
  \A o \in Addr :
    heap[o].m_tag = "string" =>
      /\ Len(heap[o].m_data) >= 1
      /\ heap[o].m_data[Len(heap[o].m_data)] = 0
      /\ heap[o].m_length = Utf8Count(StrBytes(heap[o]), 1)

\* C20: lean_string_utf8_get at a byte offset at or past the terminator
\* (offset >= m_size-1) returns the fixed value 0; and after pushing a code
\* point c onto an empty string, decoding at offset 0 returns c, the byte
\* size is the encoded size of c plus one and m_length is 1 (for U+00E9:
\* two bytes plus the terminator).
C20_Decode ==
  last.op = "lean_string_utf8_get" =>
    LET s == last.args[1]
        pos == last.args[2]
        o == heap[s]
    IN /\ heap = pre
       /\ pos >= Len(o.m_data) - 1 => last.ret = 0
       /\ (pos = 0 /\ pushed[s].ok /\ Len(pushed[s].vals) = 1) =>
            LET c == pushed[s].vals[1] IN
            /\ last.ret = c
            /\ Len(o.m_data) = EncodedSize(c) + 1
            /\ o.m_length = 1
            /\ c = 233 => o.m_data = <<195, 169, 0>>

\* a four-byte character pushed onto an empty string was decoded at offset 0
C20_Witness ==
  /\ last.op = "lean_string_utf8_get"
  /\ last.args[2] = 0
  /\ pushed[last.args[1]].ok
  /\ Len(pushed[last.args[1]].vals) = 1
  /\ last.ret >= 65536
  /\ Len(heap[last.args[1]].m_data) = 5

\* the byte offset at which code point number k + 1 of cs starts
RECURSIVE PrefixSize(_, _)
PrefixSize(cs, k) ==
  IF k = 0 THEN 0 ELSE PrefixSize(cs, k - 1) + EncodedSize(cs[k])

Boundaries(cs) == {PrefixSize(cs, k) : k \in 0..Len(cs)}

NavS == last.args[1]
NavPos == lean_unbox(last.args[2])
NavRet == lean_unbox(last.ret)
NavLen == Len(heap[NavS].m_data) - 1
NavBounds == Boundaries(pushed[NavS].vals)
NavOnBoundary == pushed[NavS].ok /\ NavPos \in NavBounds

\* C21: for a string built by pushing code points and an offset pos on a
\* code point boundary, lean_string_utf8_next returns the next boundary
\* (never beyond the byte length, the byte length itself when pos is at the
\* end) and lean_string_utf8_prev the boundary immediately before pos (0
\* when pos is 0), never the offset of a continuation byte, so that
\* prev(next(pos)) = pos for every boundary before the end.
C21_Navigation ==
  /\ (last.op = "lean_string_utf8_next" /\ NavOnBoundary) =>
       /\ NavRet \in NavBounds
       /\ NavRet <= NavLen
       /\ NavPos >= NavLen => NavRet = NavLen
       /\ NavPos < NavLen =>
            /\ NavRet > NavPos
            /\ \A b \in NavBounds : b > NavPos => NavRet <= b
            /\ \A g \in {0, 255} :
                 lean_string_utf8_prev(heap, NavS, last.ret, g)
                   = lean_box(NavPos)
  /\ (last.op = "lean_string_utf8_prev" /\ NavOnBoundary) =>
       /\ NavRet \in NavBounds
       /\ ~IsCont(heap[NavS].m_data[NavRet + 1])
       /\ NavPos = 0 => NavRet = 0
       /\ NavPos > 0 =>
            /\ NavRet < NavPos
            /\ \A b \in NavBounds : b < NavPos => NavRet >= b

\* next from the boundary between two pushed code points, over a multi-byte
\* sequence
C21_Witness ==
  /\ last.op = "lean_string_utf8_next"
  /\ NavOnBoundary
  /\ Len(pushed[NavS].vals) = 2
  /\ NavPos > 0
  /\ NavPos < NavLen
  /\ NavRet = NavPos + 3

\* the bytes bs[a + 1 .. b] are one well-formed unit: an ASCII byte, or a
\* lead byte 0xC2..0xF4 with exactly the continuation bytes it announces
IsUnit(bs, a, b) ==
  LET l == bs[a + 1] IN
  /\ \A j \in (a + 2)..b : IsCont(bs[j])
  /\ \/ b - a = 1 /\ l < 128
     \/ b - a = 2 /\ l >= 194 /\ l < 224
     \/ b - a = 3 /\ l >= 224 /\ l < 240
     \/ b - a = 4 /\ l >= 240 /\ l < 245

\* bs can be cut into well-formed units
Segmentable(bs) ==
  \E B \in SUBSET (0..Len(bs)) :
    /\ 0 \in B
    /\ Len(bs) \in B
    /\ \A a \in B : a < Len(bs) =>
         \E b \in B : b > a /\ IsUnit(bs, a, b)
                      /\ \A c \in B : ~(a < c /\ c < b)

ValBytes == SubSeq(heap[last.args[1]].m_data, 1,
                   Len(heap[last.args[1]].m_data) - 1)

\* C22: lean_string_validate_utf8 returns false for every buffer that has,
\* at a sequence start, a lone continuation byte, a lead byte not followed
\* by its full number of continuation bytes, the lead bytes 0xC0 or 0xC1 or
\* a byte from 0xF5 on, and true only when the whole buffer scans as
\* sequences without such a defect; 0xC2 alone is invalid and 0xC2 0xA9 is
\* valid.
C22_Validate ==
  last.op = "lean_string_validate_utf8" =>
    /\ last.out = <<1>> <=> Segmentable(ValBytes)
    /\ last.out \in {<<0>>, <<1>>}
    /\ ValBytes = <<194>> => last.out = <<0>>
    /\ ValBytes = <<194, 169>> => last.out = <<1>>
    /\ heap = pre

\* a lead byte announcing three bytes that is followed by one continuation
\* byte and the end of the buffer is rejected
C22_Witness ==
  /\ last.op = "lean_string_validate_utf8"
  /\ ValBytes = <<226, 130>>
  /\ last.out = <<0>>

\* the content bytes of object o: all of a byte buffer, a string without
\* its terminator
Content(h, o) ==
  IF h[o].m_tag = "string" THEN SubSeq(h[o].m_data, 1, Len(h[o].m_data) - 1)
  ELSE h[o].m_data

EqA == Content(heap, last.args[1])
EqB == Content(heap, last.args[2])

\* C23: l_ByteArray_instBEq_beq and lean_string_eq_cold return true exactly
\* when the two operands have the same length and the same byte at every
\* index, and modify neither operand.
C23_Equality ==
  last.op \in {"l_ByteArray_instBEq_beq", "lean_string_eq_cold"} =>
    /\ last.out = <<1>> <=>
         /\ Len(EqA) = Len(EqB)
         /\ \A i \in 1..Len(EqA) : EqA[i] = EqB[i]
    /\ last.out \in {<<0>>, <<1>>}
    /\ heap = pre

\* two distinct strings of equal length that differ in a byte compare
\* unequal
C23_Witness ==
  /\ last.op = "lean_string_eq_cold"
  /\ last.args[1] # last.args[2]
  /\ Len(EqA) = Len(EqB)
  /\ Len(EqA) >= 2
  /\ EqA # EqB
  /\ last.out = <<0>>

\* the hash as a number in eight 8-bit digits, lowest first: x * 31 + b
\* digit by digit, without the carry out of the highest digit
RefMulAdd(x, b) ==
  LET t1 == x[1] * 31 + b
      t2 == x[2] * 31 + t1 \div 256
      t3 == x[3] * 31 + t2 \div 256
      t4 == x[4] * 31 + t3 \div 256
      t5 == x[5] * 31 + t4 \div 256
      t6 == x[6] * 31 + t5 \div 256
      t7 == x[7] * 31 + t6 \div 256
      t8 == x[8] * 31 + t7 \div 256
  IN <<t1 % 256, t2 % 256, t3 % 256, t4 % 256,
       t5 % 256, t6 % 256, t7 % 256, t8 % 256>>

RECURSIVE RefHash(_)
RefHash(bs) ==
  IF bs = <<>> THEN <<7, 0, 0, 0, 0, 0, 0, 0>>
  ELSE RefMulAdd(RefHash(SubSeq(bs, 1, Len(bs) - 1)), bs[Len(bs)])

\* 16-bit limbs of a number in 8-bit digits
Limbs(x) == [k \in 1..4 |-> x[2 * k - 1] + 256 * x[2 * k]]

HashOf(h, o) ==
  IF h[o].m_tag = "string" THEN lean_string_hash(h, o)
  ELSE lean_byte_array_hash(h, o)

\* C24: lean_byte_array_hash and lean_string_hash compute h0 = 7,
\* h(i+1) = (h(i) * 31 + byte_i) mod 2^64 over exactly the content bytes,
\* the terminator of a string excluded, so that objects with equal contents,
\* strings or byte buffers, hash to the same value.
C24_Hash ==
  last.op \in {"lean_byte_array_hash", "lean_string_hash"} =>
    /\ last.out = Limbs(RefHash(Content(heap, last.args[1])))
    /\ \A o \in Addr :
         (/\ IsLive(heap, o)
          /\ heap[o].m_tag \in {"string", "sarray"}
          /\ Content(heap, o) = Content(heap, last.args[1])) =>
           HashOf(heap, o) = last.out
    /\ heap = pre

\* a string of fourteen bytes, whose hash wrapped around 2^64, is hashed
\* while a byte buffer with the same bytes is alive
C24_Witness ==
  /\ last.op = "lean_string_hash"
  /\ Len(Content(heap, last.args[1])) = 14
  /\ \E o \in Addr :
       /\ IsLive(heap, o)
       /\ heap[o].m_tag = "sarray"
       /\ Content(heap, o) = Content(heap, last.args[1])

(* ----------------------------- host bridge ----------------------------- *)
JsCore == last.calls[1]
JsPtrs == {last.args[i].ptr : i \in 1..Len(last.args)}

\* every input was copied into its own new byte array of exactly its length
JsInputsCopied ==
  /\ Len(JsCore.args) = Len(last.args)
  /\ \A i \in 1..Len(last.args) :
       LET a == JsCore.args[i] IN
       /\ ~IsLive(pre, a.ptr)
       /\ a.obj.m_tag = "sarray"
       /\ a.obj.m_rc = 1
       /\ a.obj.m_data = last.args[i].bytes
       /\ a.obj.m_capacity = Len(last.args[i].bytes)
       /\ \A j \in 1..Len(last.args) : j # i => JsCore.args[j].ptr # a.ptr

\* no buffer the host held before the call was written or freed
JsHostKept ==
  \A b \in Addr :
    (pre[b].m_tag = "malloc" /\ ~(last.op = "js_free" /\ last.args[1] = b)) =>
      heap[b] = pre[b]

\* the pointer returned is a new malloc block with the bytes of the result
JsReturned ==
  /\ last.ret # NULL
  /\ ~IsLive(pre, last.ret)
  /\ heap[last.ret].m_tag = "malloc"
  /\ last.ret # JsCore.res
  /\ last.ret \notin JsPtrs
  /\ heap[last.ret].m_data = JsCore.bytes

\* C25: every js_* operation copies each (pointer, length) input into its
\* own new byte array of exactly that length without writing host memory,
\* calls exactly one compiled function, and returns a new malloc block,
\* distinct from every input and from the result object, holding exactly the
\* result's bytes, with the result length stored in *out_len; a buffer
\* returned earlier stays allocated and unmodified until js_free gets it.
C25_Bridge ==
  /\ last.op \in JsOps =>
       /\ Len(last.calls) = 1
       /\ JsCore.fn = CoreOf[last.op]
       /\ JsInputsCopied
       /\ JsReturned
       /\ last.out = <<Len(JsCore.bytes)>>
  /\ last.op \in JsOps \cup {"js_free"} => JsHostKept

\* the objects of the runtime that are alive in heap h
LiveObjs(h) == {a \in Addr : IsLive(h, a) /\ h[a].m_tag # "malloc"}

\* C26: when a js_* call returns, the result byte array has been released:
\* the live heap objects after the call are those before it.
C26_Released ==
  last.op \in JsOps => LiveObjs(heap) = LiveObjs(pre)

\* C27: a bridge call, js_free of the pointer it returned, and the same
\* call with the same input give the same bytes and the same length.
C27_Deterministic ==
  (last.op \in JsOps /\ prev.op = last.op /\ prev.args = last.args) =>
    /\ last.ret # NULL
    /\ heap[last.ret].m_data = prev.out[1]
    /\ last.out = prev.out[2]

(* ------------------------------ IO stubs ------------------------------- *)
\* v is an error result: EStateM.Result.error of IO.Error.userError of a
\* string of at least one character, all printable ASCII
IsIoError(h, v) ==
  /\ ~lean_is_scalar(v)
  /\ h[v].m_tag = "ctor" /\ h[v].m_cidx = 1 /\ Len(h[v].m_objs) = 1
  /\ LET e == h[v].m_objs[1] IN
     /\ ~lean_is_scalar(e)
     /\ h[e].m_tag = "ctor" /\ h[e].m_cidx = 2 /\ Len(h[e].m_objs) = 1
     /\ LET m == h[e].m_objs[1] IN
        /\ ~lean_is_scalar(m)
        /\ h[m].m_tag = "string"
        /\ Len(Content(h, m)) > 0
        /\ \A i \in 1..Len(Content(h, m)) :
             Content(h, m)[i] >= 32 /\ Content(h, m)[i] < 127

\* v is a success result
IsIoOk(h, v) ==
  ~lean_is_scalar(v) /\ h[v].m_tag = "ctor" /\ h[v].m_cidx = 0
    /\ Len(h[v].m_objs) = 1

\* the last call released each object argument once for each time it was
\* passed: its count went down by that number, or it was freed once
ArgsReleased ==
  \A a \in Addr :
    (Occ(last.args, a) > 0 /\ pre[a].m_rc > 0) =>
      IF pre[a].m_rc > Occ(last.args, a)
        THEN /\ Occ(last.freed, a) = 0
             /\ heap[a].m_rc = pre[a].m_rc - Occ(last.args, a)
      ELSE Occ(last.freed, a) = 1

\* C28: every filesystem, cryptographic FFI and promise stub returns an
\* error result carrying a descriptive message, never aborts, and releases
\* each object argument exactly once.
C28_Unavailable ==
  last.op \in FsOps \cup CryptoOps \cup PromiseOps =>
    /\ IsIoError(heap, last.ret)
    /\ last.panic = ""
    /\ ~fault
    /\ ArgsReleased

\* C29: a request for random bytes gives an error result, never a success
\* result carrying bytes.
C29_NoRandomness ==
  last.op \in RandomOps =>
    /\ IsIoError(heap, last.ret)
    /\ ~IsIoOk(heap, last.ret)

TaskC == pre[last.args[1]]

\* C30: lean_io_as_task calls the function of the closure it is given (a
\* closure that lacks the unit argument only) exactly once, with the fixed
\* arguments and the unit value, and returns what the function returned;
\* lean_io_get_task_state_core answers 2 (finished) for any task,
\* lean_io_check_canceled_core answers false and lean_io_cancel_core changes
\* nothing, after any calls.
C30_Tasks ==
  /\ (last.op = "lean_io_as_task" /\ TaskC.m_arity - Len(TaskC.m_objs) = 1) =>
       /\ last.calls = <<[fn |-> TaskC.m_fun,
                          args |-> TaskC.m_objs \o <<lean_box(0)>>]>>
       /\ last.panic = ""
       /\ heap[last.ret].m_tag = "ctor"
       /\ heap[last.ret].m_objs = TaskC.m_objs \o <<lean_box(0)>>
  /\ last.op = "lean_io_get_task_state_core" =>
       last.out = <<2>> /\ heap = pre
  /\ last.op = "lean_io_check_canceled_core" =>
       last.out = <<0>> /\ heap = pre
  /\ last.op = "lean_io_cancel_core" =>
       last.out = <<>> /\ heap = pre

\* a task whose closure holds an object was run
C30_Witness ==
  /\ last.op = "lean_io_as_task"
  /\ Len(last.calls) = 1
  /\ Len(TaskC.m_objs) = 1
  /\ ~lean_is_scalar(TaskC.m_objs[1])

(* ------------------------------- C31 ----------------------------------- *)
\* C31: every allocation failure is fatal.  Whenever a malloc of the last
\* call returned NULL (in lean_alloc_object, in export_byte_array, for the
\* scratch buffer of lean_string_data), the call aborted: it returned no
\* pointer, stored no output length and did not run on.
C31_AllocationFatal ==
  last.nomem =>
    /\ last.panic # ""
    /\ last.ret = NULL
    /\ last.out = <<>>

(* ------------------------------- C32 ----------------------------------- *)
\* the mathematical product, or Big when it is above LEAN_MAX_SMALL_NAT
Big == 0 - 1
SatMul(x, y) ==
  IF x = 0 \/ y = 0 THEN 0
  ELSE IF x = Big \/ y = Big THEN Big
  ELSE IF y > LEAN_MAX_SMALL_NAT \div x THEN Big
  ELSE x * y

RECURSIVE SatPow(_, _)
SatPow(a, b) == IF b = 0 THEN 1 ELSE SatMul(a, SatPow(a, b - 1))

NatA == lean_unbox(last.args[1])
NatB == lean_unbox(last.args[2])
NatExact ==
  IF last.op = "lean_nat_pow" THEN SatPow(NatA, NatB)
  ELSE SatMul(NatA, SatPow(2, NatB))

\* C32: small-integer arithmetic is exact or fatal.  lean_nat_pow(a, b)
\* and lean_nat_shiftl(a, b) on small naturals return exactly a^b and
\* a * 2^b when that value is at most LEAN_MAX_SMALL_NAT and abort
\* otherwise; no result is the value modulo the word size.
C32_ExactOrFatal ==
  last.op \in {"lean_nat_pow", "lean_nat_shiftl"} =>
    IF NatExact = Big THEN last.panic # ""
    ELSE last.panic = "" /\ last.ret = lean_box(NatExact)

(* ------------------------------- C33 ----------------------------------- *)
\* the last call took one of the paths of a broken invariant
Broken ==
  \/ last.op \in {"lean_panic_fn", "lean_array_get_panic",
                  "lean_array_set_panic", "lean_internal_panic_unreachable"}
  \/ /\ last.op = "l_Array_back___redArg"
     /\ pre[last.args[1]].m_data = <<>>

\* C33: a broken internal invariant is fatal.  Array.back of an empty array,
\* lean_array_get_panic, lean_array_set_panic, lean_panic_fn and
\* lean_internal_panic_unreachable abort with a diagnostic: none of them
\* returns to its caller.
C33_InvariantFatal == Broken => last.panic # ""

(* ------------------------------- C34 ----------------------------------- *)
\* the cell of the last call, the value it held before the call, the value
\* it holds now and the value inside the result
RefCell == last.args[1]
RefOld == pre[RefCell].m_objs[1]
RefNow == heap[RefCell].m_objs[1]
RefRes == heap[last.ret].m_objs[1]
\* the refcount of object v went up by d in the last call (an immortal
\* object keeps 0)
RcMoved(v, d) ==
  lean_is_scalar(v) \/ pre[v].m_rc = 0 \/ heap[v].m_rc = pre[v].m_rc + d

\* the last call released the value v exactly once: its refcount went down
\* by one, and it was freed, once, when that was the last reference
RefReleased(v) ==
  \/ lean_is_scalar(v) /\ last.freed = <<>>
  \/ ~lean_is_scalar(v) /\ pre[v].m_rc = 0 /\ last.freed = <<>>
  \/ ~lean_is_scalar(v) /\ pre[v].m_rc > 1 /\ last.freed = <<>>
       /\ heap[v].m_rc = pre[v].m_rc - 1
  \/ ~lean_is_scalar(v) /\ pre[v].m_rc = 1 /\ Occ(last.freed, v) = 1

\* C34: the ref cell protocol.  set stores v, so that the get that follows
\* returns it: get returns the value the cell holds, adds exactly one
\* reference to it and leaves it in the cell; set and reset release the
\* value stored before exactly once; swap returns the value stored before
\* and take the stored value, both with the refcount unchanged (the
\* reference of the cell passes to the caller); take leaves the scalar 0 in
\* the cell, so that releasing the cell afterwards releases nothing else.
C34_RefCell ==
  /\ last.op = "lean_st_ref_get" =>
       /\ RefRes = RefOld /\ RefNow = RefOld
       /\ RcMoved(RefOld, 1)
       /\ last.freed = <<>>
  /\ last.op = "lean_st_ref_set" =>
       /\ RefNow = last.args[2]
       /\ RefRes = lean_box(0)
       /\ RefReleased(RefOld)
  /\ last.op = "lean_st_ref_reset" =>
       /\ RefNow = lean_box(0)
       /\ RefRes = lean_box(0)
       /\ RefReleased(RefOld)
  /\ last.op = "lean_st_ref_swap" =>
       /\ RefRes = RefOld /\ RefNow = last.args[2]
       /\ RcMoved(RefOld, 0)
       /\ last.freed = <<>>
  /\ last.op = "lean_st_ref_take" =>
       /\ RefRes = RefOld /\ RefNow = lean_box(0)
       /\ RcMoved(RefOld, 0)
       /\ last.freed = <<>>
  /\ (last.op = "lean_dec" /\ pre[last.args[1]].m_tag = "ref"
        /\ pre[last.args[1]].m_objs = <<lean_box(0)>>) =>
       last.freed \in {<<>>, <<last.args[1]>>}
  /\ last.op \in {"lean_st_ref_get", "lean_st_ref_set", "lean_st_ref_reset",
                  "lean_st_ref_swap", "lean_st_ref_take", "lean_dec"} =>
       C1_RefcountSound

\* a cell whose value was taken has been released: the taken value is still
\* alive inside the result of the take
C34_Witness ==
  /\ last.op = "lean_dec"
  /\ pre[last.args[1]].m_tag = "ref"
  /\ last.freed = <<last.args[1]>>
  /\ \E w \in Addr :
       /\ IsLive(heap, w) /\ heap[w].m_tag = "ctor" /\ roots[w] > 0
       /\ ~lean_is_scalar(heap[w].m_objs[1])
       /\ heap[heap[w].m_objs[1]].m_tag = "sarray"
       /\ heap[heap[w].m_objs[1]].m_rc = 1

(* ------------------------------- C35 ----------------------------------- *)
\* the arguments of the last lean_byte_array_copy_slice and the bytes of
\* src and dst before it
SlSrc == pre[last.args[1]].m_data
SlDst == pre[last.args[3]].m_data
SlSS == Min(last.args[2], Len(SlSrc))
SlN == Min(last.args[5], Len(SlSrc) - SlSS)
SlDS == Min(last.args[4], Len(SlDst))
SlLen == Max(SlDS + SlN, Len(SlDst))

\* C35: lean_byte_array_copy_slice(src, srcOff, dst, dstOff, len, exact)
\* with ss = min(srcOff, |src|), n = min(len, |src| - ss) and
\* ds = min(dstOff, |dst|): the result has length max(ds + n, |dst|) and is
\* dst[0..ds) ++ src[ss..ss+n) ++ dst[ds+n..|dst|); src is unchanged; the
\* result is dst itself exactly when dst has refcount 1 and capacity for
\* the new length, otherwise it is a new object and a dst that has other
\* holders keeps its contents.
C35_CopySlice ==
  last.op = "lean_byte_array_copy_slice" =>
    LET src == last.args[1]
        dst == last.args[3]
        r == last.ret
    IN /\ heap[r].m_tag = "sarray"
       /\ Len(heap[r].m_data) = SlLen
       /\ \A i \in 1..SlLen :
            heap[r].m_data[i] =
              IF i <= SlDS THEN SlDst[i]
              ELSE IF i <= SlDS + SlN THEN SlSrc[SlSS + i - SlDS]
              ELSE SlDst[i]
       /\ src # r => IsLive(heap, src) /\ heap[src].m_data = SlSrc
       /\ r = dst <=> (pre[dst].m_rc = 1 /\ SlLen <= pre[dst].m_capacity)
       /\ r # dst =>
            /\ ~IsLive(pre, r) /\ last.allocs = <<r>> /\ heap[r].m_rc = 1
            /\ pre[dst].m_rc # 1 =>
                 IsLive(heap, dst) /\ heap[dst].m_data = SlDst

\* a slice was copied into the middle of a shared array, and one was
\* appended in place to an array with spare capacity
C35_Witness ==
  /\ last.op = "lean_byte_array_copy_slice"
  /\ SlN > 0
  /\ \/ /\ last.ret # last.args[3]
        /\ pre[last.args[3]].m_rc > 1
        /\ SlDS > 0 /\ SlDS + SlN < Len(SlDst)
     \/ /\ last.ret = last.args[3]
        /\ SlLen > Len(SlDst)
        /\ SlSS > 0

(* ------------------------------- C36 ----------------------------------- *)
\* C36: lean_secure_zero(arr) returns a success result holding an array of
\* the length of arr all of whose bytes are zero, whether arr is
\* exclusively owned or shared.
C36_SecureZero ==
  last.op = "lean_secure_zero" =>
    /\ IsIoOk(heap, last.ret)
    /\ LET a == heap[last.ret].m_objs[1] IN
       /\ ~lean_is_scalar(a)
       /\ heap[a].m_tag = "sarray"
       /\ Len(heap[a].m_data) = Len(pre[last.args[1]].m_data)
       /\ \A i \in 1..Len(heap[a].m_data) : heap[a].m_data[i] = 0


\* every live object's count equals the references held to it, and no root
\* or field refers to a freed object
CountsExact ==
  /\ \A a \in Addr : roots[a] > 0 => IsLive(heap, a)
  /\ \A o \in Addr :
       IsLive(heap, o) =>
         /\ heap[o].m_rc # 0 =>
              /\ heap[o].m_rc >= 1
              /\ heap[o].m_rc = roots[o] + ParentRefs(heap, o, MaxObjs)
         /\ \A i \in 1..Len(OwnedRefs(heap[o])) :
              LET c == OwnedRefs(heap[o])[i] IN
              lean_is_scalar(c) \/ IsLive(heap, c)

\* C37: mapping over a shared array (refcount at least 2) calls f on the old
\* elements at the indices i..min(sz, size)-1 in order, returns a live array
\* of the same length holding the results at those indices and the old
\* elements elsewhere, and leaves the original intact: it is still an array
\* with the same elements, none of its elements was freed by the call, and
\* every reference count still covers the references held to the object.
MapShared ==
  /\ last.op = "Array_mapMUnsafe_map"
  /\ last.panic = ""
  /\ pre[last.args[4]].m_rc >= 2

MapLo == last.args[3] + 1

MapHi ==
  IF last.args[2] < Len(pre[last.args[4]].m_data)
    THEN last.args[2] ELSE Len(pre[last.args[4]].m_data)

MapApplied(fn, v) == IF fn = "id" THEN v ELSE lean_box(0)

C37_MapShared ==
  MapShared =>
    LET f == last.args[1]
        arr == last.args[4]
        old == pre[arr].m_data
        r == last.ret
    IN /\ ~fault
       /\ last.calls = [k \in 1..(IF MapHi < MapLo THEN 0 ELSE MapHi - MapLo + 1) |->
                          [fn |-> pre[f].m_fun, args |-> <<old[MapLo + k - 1]>>]]
       /\ r > 0 /\ heap[r].m_tag = "array"
       /\ Len(heap[r].m_data) = Len(old)
       /\ \A j \in 1..Len(old) :
            heap[r].m_data[j] = IF j >= MapLo /\ j <= MapHi
                                  THEN MapApplied(pre[f].m_fun, old[j])
                                  ELSE old[j]
       /\ heap[arr].m_tag = "array"
       /\ heap[arr].m_data = old
       /\ \A j \in 1..Len(old) : Occ(last.freed, old[j]) = 0
       /\ CountsExact


\* C38: the UTF-8 decoders read no byte outside the string: every index of
\* m_data that lean_string_utf8_get, lean_string_utf8_prev or lean_string_data
\* reads, for the string and the position of the call, is below m_size.
DecStr == pre[last.args[1]]

C38_ReadsInside ==
  \A g \in DecGarbage :
    /\ last.op = "lean_string_utf8_get" =>
         \A k \in Utf8GetReads(DecStr, last.args[2], g) : k < Len(DecStr.m_data)
    /\ last.op = "lean_string_utf8_prev" =>
         \A k \in Utf8PrevReads(DecStr, last.args[2], g) : k < Len(DecStr.m_data)
    /\ last.op = "lean_string_data" =>
         \A k \in DataLoopReads(DecStr, 0, 0, g) : k < Len(DecStr.m_data)
\* C39: the range loop treats step 0 as 1, calls f on i, i + s, i + 2s, ...
\* below stop in that order, each call with the accumulator of the preceding
\* yield, returns the payload of the first done (or the last accumulator when
\* the range is exhausted), calls f with no index at or above stop, and makes
\* at most ceil((stop - i) / s) calls.
LoopRan == last.op = "Std_Range_forIn_loop" /\ last.panic = ""

LoopK == lean_unbox(pre[last.args[1]].m_objs[1])

LoopS == IF lean_unbox(last.args[2]) = 0 THEN 1 ELSE lean_unbox(last.args[2])

LoopE == lean_unbox(last.args[3])

LoopI == lean_unbox(last.args[4])

\* the calls f is to receive from index cur on, and the result of the loop
RECURSIVE LoopExpect(_, _, _)
LoopExpect(cur, acc, calls) ==
  IF cur >= LoopE THEN [calls |-> calls, ret |-> acc]
  ELSE LET c == Append(calls, <<cur, acc>>) IN
       IF cur >= LoopK THEN [calls |-> c, ret |-> acc]
       ELSE LoopExpect(cur + LoopS, acc + cur + 1, c)

C39_RangeLoop ==
  LoopRan =>
    LET x == LoopExpect(LoopI, lean_unbox(last.args[5]), <<>>) IN
    /\ ~fault
    /\ last.calls = [n \in 1..Len(x.calls) |->
                       [fn |-> "until",
                        args |-> <<lean_box(LoopK), lean_box(x.calls[n][1]),
                                   lean_box(x.calls[n][2])>>]]
    /\ last.ret = lean_box(x.ret)
    /\ \A n \in 1..Len(last.calls) : lean_unbox(last.calls[n].args[2]) < LoopE
    /\ LoopI < LoopE =>
         Len(last.calls) <= (LoopE - LoopI + LoopS - 1) \div LoopS
    /\ LoopI >= LoopE => last.calls = <<>>
    /\ CountsExact
====
